---- MODULE Spec2Model ----
(***************************************************************************)
(* Emotion detection and emotion-history ingestion of the mental-wellness  *)
(* chatbot.  Two detector classes are modelled, both named EmotionDetector *)
(* in the source:                                                          *)
(*   - attached_assets/emotion_detector_1750350728750.py (detect_emotion,  *)
(*     calculate_intensity), used by attached_assets/routes_1750350728745  *)
(*   - ml_utils.py (predict_emotion, analyze_sentiment), used by routes.py *)
(* and the analytics over the stored readings: EmotionAnalytics of         *)
(* attached_assets/analytics_1750350728748.py and the analytics endpoints  *)
(* of routes.py.                                                           *)
(*                                                                         *)
(* Representation.                                                         *)
(*   text        a sequence of one-character strings                       *)
(*   confidence  a float, in tenths            (0.5 is 5, 1.0 is ONE)      *)
(*   sentiment   a float, in tenths            (-1.0 is -ONE)              *)
(*   intensity   a float, in units of 1/(2*ONE*ONE), so that               *)
(*               confidence * (1 + sentiment * 0.5) is exact               *)
(*   None        Python's None;  RAISE  a call that raised an exception    *)
(* The pickled artifacts, TextBlob and the database are collaborators:     *)
(* what they return on a call is an input of the action that makes it.     *)
(***************************************************************************)
EXTENDS Integers, Sequences, FiniteSets, TLC

VARIABLES
  impl,            \* which module's EmotionDetector the process built ("none" before,
                   \* "crashed" if its construction raised)
  model,           \* self.model
  vectorizer,      \* self.vectorizer
  label_encoder,   \* self.label_encoder
  emotion_labels,  \* self.emotion_labels (emotion_detector.py only)
  is_loaded,       \* self.is_loaded      (ml_utils.py only)
  last,            \* the detection call that has returned and is not yet consumed
  probe,           \* a pure function under test: its arguments and its result
  conversations,   \* the committed rows of table Conversation, in id order
  journal_entries, \* the committed rows of table JournalEntry, in id order
  emotion_history, \* the committed rows of table EmotionHistory, in id order
  response,        \* what the last request handler answered
  request,         \* the request that handler was given
  previous         \* the analytics call the call in probe repeats

vars ==
  <<impl, model, vectorizer, label_encoder, emotion_labels, is_loaded, last, probe,
    conversations, journal_entries, emotion_history, response, request, previous>>

detector == <<impl, model, vectorizer, label_encoder, emotion_labels, is_loaded>>

store == <<conversations, journal_entries, emotion_history>>

\* The float 1.0 in tenths: the unit of confidence and sentiment.
ONE == 10

\* The float 1.0 as an intensity.
IntensityOne == 2 * ONE * ONE

(***************************************************************************)
(* Bounds of the model.                                                    *)
(***************************************************************************)
\* A text is the concatenation of at most MaxFrags fragments.
MaxFrags == 2

\* Only the first MaxPresent candidate file names of each kind may exist on disk.
MaxPresent == 2

\* The request handlers stop once MaxSubmissions submissions are committed.
MaxSubmissions == 1

\* The clock reads 0 .. MaxTick while the request handlers run.
MaxTick == 1

\* The tables the analytics read hold up to MaxRows chat messages.
MaxRows == 3

\* A day has TicksPerDay ticks of the clock.
TicksPerDay == 2

(***************************************************************************)
(* Python's str: lower(), strip(), the `in` substring test, str().         *)
(***************************************************************************)
Whitespace == {" ", "\t", "\n"}

UpperCase ==
  <<"A","B","C","D","E","F","G","H","I","J","K","L","M",
    "N","O","P","Q","R","S","T","U","V","W","X","Y","Z">>

LowerCase ==
  <<"a","b","c","d","e","f","g","h","i","j","k","l","m",
    "n","o","p","q","r","s","t","u","v","w","x","y","z">>

LowerChar(c) ==
  IF \E i \in DOMAIN UpperCase : UpperCase[i] = c
    THEN LowerCase[CHOOSE i \in DOMAIN UpperCase : UpperCase[i] = c]
    ELSE c

Lower(t) == [i \in 1..Len(t) |-> LowerChar(t[i])]

Strip(t) ==
  LET keep == {i \in 1..Len(t) : t[i] \notin Whitespace}
      lo == CHOOSE i \in keep : \A j \in keep : i <= j
      hi == CHOOSE i \in keep : \A j \in keep : j <= i
  IN IF keep = {} THEN <<>> ELSE SubSeq(t, lo, hi)

\* keyword in text
Contains(keyword, t) ==
  \E i \in 0..(Len(t) - Len(keyword)) : SubSeq(t, i + 1, i + Len(keyword)) = keyword

\* Python truthiness of a str: `not text`
Truthy(t) == t # <<>>

(***************************************************************************)
(* The keyword tables, in their declared (dict insertion) order.           *)
(***************************************************************************)
emotion_keywords ==
  <<
    [emotion |-> "joy", keywords |-> <<
       <<"h","a","p","p","y">>, <<"j","o","y","f","u","l">>, <<"e","x","c","i","t","e","d">>,
       <<"c","h","e","e","r","f","u","l">>, <<"g","l","a","d">>,
       <<"d","e","l","i","g","h","t","e","d">>, <<"e","l","a","t","e","d">>,
       <<"c","o","n","t","e","n","t">>, <<"t","h","r","i","l","l","e","d">>,
       <<"e","c","s","t","a","t","i","c">>, <<"b","l","i","s","s","f","u","l">>,
       <<"p","l","e","a","s","e","d">>, <<"w","o","n","d","e","r","f","u","l">>,
       <<"f","a","n","t","a","s","t","i","c">>, <<"g","r","e","a","t">>,
       <<"a","m","a","z","i","n","g">>, <<"a","w","e","s","o","m","e">>,
       <<"b","r","i","l","l","i","a","n","t">>, <<"e","x","c","e","l","l","e","n","t">> >>],
    [emotion |-> "sadness", keywords |-> <<
       <<"s","a","d">>, <<"d","e","p","r","e","s","s","e","d">>, <<"d","o","w","n">>,
       <<"u","n","h","a","p","p","y">>, <<"m","e","l","a","n","c","h","o","l","y">>,
       <<"g","l","o","o","m","y">>, <<"m","i","s","e","r","a","b","l","e">>,
       <<"h","e","a","r","t","b","r","o","k","e","n">>,
       <<"s","o","r","r","o","w","f","u","l">>, <<"d","e","j","e","c","t","e","d">>,
       <<"d","i","s","a","p","p","o","i","n","t","e","d">>, <<"h","u","r","t">>,
       <<"u","p","s","e","t">>, <<"b","l","u","e">>, <<"l","o","w">>,
       <<"t","e","r","r","i","b","l","e">>, <<"a","w","f","u","l">>, <<"b","a","d">> >>],
    [emotion |-> "anger", keywords |-> <<
       <<"a","n","g","r","y">>, <<"f","u","r","i","o","u","s">>, <<"m","a","d">>,
       <<"i","r","r","i","t","a","t","e","d">>, <<"a","n","n","o","y","e","d">>,
       <<"f","r","u","s","t","r","a","t","e","d">>, <<"r","a","g","e">>,
       <<"o","u","t","r","a","g","e","d">>, <<"l","i","v","i","d">>, <<"i","r","a","t","e">>,
       <<"e","n","r","a","g","e","d">>, <<"i","n","d","i","g","n","a","n","t">>,
       <<"i","n","c","e","n","s","e","d">>, <<"p","i","s","s","e","d">>,
       <<"h","o","s","t","i","l","e">> >>],
    [emotion |-> "fear", keywords |-> <<
       <<"s","c","a","r","e","d">>, <<"a","f","r","a","i","d">>,
       <<"a","n","x","i","o","u","s">>, <<"w","o","r","r","i","e","d">>,
       <<"n","e","r","v","o","u","s">>, <<"t","e","r","r","i","f","i","e","d">>,
       <<"p","a","n","i","c","k","e","d">>, <<"f","r","i","g","h","t","e","n","e","d">>,
       <<"f","e","a","r","f","u","l">>, <<"a","p","p","r","e","h","e","n","s","i","v","e">>,
       <<"c","o","n","c","e","r","n","e","d">>, <<"u","n","e","a","s","y">>,
       <<"d","i","s","t","r","e","s","s","e","d">>, <<"a","l","a","r","m","e","d">> >>],
    [emotion |-> "surprise", keywords |-> <<
       <<"s","u","r","p","r","i","s","e","d">>, <<"s","h","o","c","k","e","d">>,
       <<"a","m","a","z","e","d">>, <<"a","s","t","o","n","i","s","h","e","d">>,
       <<"s","t","u","n","n","e","d">>, <<"b","e","w","i","l","d","e","r","e","d">>,
       <<"s","t","a","r","t","l","e","d">>, <<"a","s","t","o","u","n","d","e","d">>,
       <<"f","l","a","b","b","e","r","g","a","s","t","e","d">>,
       <<"d","u","m","b","f","o","u","n","d","e","d">> >>],
    [emotion |-> "love", keywords |-> <<
       <<"l","o","v","e">>, <<"a","d","o","r","e">>, <<"c","h","e","r","i","s","h">>,
       <<"a","f","f","e","c","t","i","o","n">>, <<"r","o","m","a","n","t","i","c">>,
       <<"c","a","r","i","n","g">>, <<"d","e","v","o","t","e","d">>, <<"f","o","n","d">>,
       <<"a","t","t","a","c","h","e","d">>, <<"p","a","s","s","i","o","n","a","t","e">>,
       <<"i","n","f","a","t","u","a","t","e","d">> >>],
    [emotion |-> "neutral", keywords |-> <<
       <<"o","k","a","y">>, <<"f","i","n","e">>, <<"n","o","r","m","a","l">>,
       <<"r","e","g","u","l","a","r">>, <<"u","s","u","a","l">>,
       <<"a","l","r","i","g","h","t">>, <<"d","e","c","e","n","t">>,
       <<"a","v","e","r","a","g","e">> >>]
  >>

ml_emotion_keywords ==
  <<
    [emotion |-> "joy", keywords |-> <<
       <<"h","a","p","p","y">>, <<"j","o","y">>, <<"e","x","c","i","t","e","d">>,
       <<"g","r","e","a","t">>, <<"w","o","n","d","e","r","f","u","l">>,
       <<"a","m","a","z","i","n","g">>, <<"f","a","n","t","a","s","t","i","c">>,
       <<"l","o","v","e">>, <<"a","w","e","s","o","m","e">> >>],
    [emotion |-> "sadness", keywords |-> <<
       <<"s","a","d">>, <<"d","e","p","r","e","s","s","e","d">>, <<"u","p","s","e","t">>,
       <<"d","o","w","n">>, <<"c","r","y","i","n","g">>, <<"t","e","a","r","s">>,
       <<"l","o","n","e","l","y">>, <<"g","r","i","e","f">> >>],
    [emotion |-> "anger", keywords |-> <<
       <<"a","n","g","r","y">>, <<"m","a","d">>, <<"f","u","r","i","o","u","s">>,
       <<"r","a","g","e">>, <<"h","a","t","e">>, <<"f","r","u","s","t","r","a","t","e","d">>,
       <<"a","n","n","o","y","e","d">> >>],
    [emotion |-> "fear", keywords |-> <<
       <<"s","c","a","r","e","d">>, <<"a","f","r","a","i","d">>, <<"f","e","a","r">>,
       <<"a","n","x","i","o","u","s">>, <<"w","o","r","r","i","e","d">>,
       <<"p","a","n","i","c">>, <<"t","e","r","r","i","f","i","e","d">> >>],
    [emotion |-> "surprise", keywords |-> <<
       <<"s","u","r","p","r","i","s","e","d">>, <<"s","h","o","c","k","e","d">>,
       <<"a","m","a","z","e","d">>, <<"w","o","w">>,
       <<"u","n","e","x","p","e","c","t","e","d">> >>],
    [emotion |-> "love", keywords |-> <<
       <<"l","o","v","e">>, <<"a","d","o","r","e">>, <<"c","h","e","r","i","s","h">>,
       <<"r","o","m","a","n","t","i","c">>, <<"a","f","f","e","c","t","i","o","n">>,
       <<"c","a","r","i","n","g">> >>]
  >>

(***************************************************************************)
(* The texts of the model: concatenations of at most MaxFrags fragments.   *)
(***************************************************************************)
Fragments ==
  { <<" ">>, <<"u","n">>, <<"h","a","p","p","y">>, <<"g","l","a","d">>,
    <<"S","a","d">>, <<"l","o","v","e">> }

RECURSIVE TextsOf(_)
TextsOf(n) ==
  IF n = 0
    THEN {<<>>}
    ELSE LET shorter == TextsOf(n - 1)
         IN shorter \cup {t \o f : t \in shorter, f \in Fragments}

Texts == TextsOf(MaxFrags)

\* the texts the keyword classifiers are handed: ml_utils.py hands its own a text
\* it has stripped and lower-cased
ClassifiedTexts == Texts \cup {Lower(Strip(t)) : t \in Texts}

(***************************************************************************)
(* Results.  A detection result carries, besides the returned tuple, the   *)
(* collaborator calls the call made, in order (calls: "transform",         *)
(* "predict", "predict_proba", "inverse_transform", "TextBlob", and        *)
(* "keywords" for a run of the keyword classifier) and those of them that  *)
(* raised (errors); both are instrumentation, not program state.           *)
(***************************************************************************)
Result(emotion, confidence, sentiment_score, calls, errors) ==
  [raised |-> FALSE, emotion |-> emotion, confidence |-> confidence,
   sentiment_score |-> sentiment_score, calls |-> calls, errors |-> errors]

\* r, with the collaborator calls made before it prepended
After(calls, errors, r) ==
  [r EXCEPT !.calls = calls \o r.calls, !.errors = errors \o r.errors]

\* sum(1 for keyword in keywords if keyword in text)
Score(keywords, t) == Cardinality({i \in DOMAIN keywords : Contains(keywords[i], t)})

\* Mutant: of the emotions of maximal score the last one wins.
MaxKey_last_wins(table, t) ==
  LET sc == [i \in DOMAIN table |-> Score(table[i].keywords, t)]
      hit == {i \in DOMAIN table : sc[i] > 0}
  IN CHOOSE i \in hit : \A j \in hit : sc[j] < sc[i] \/ (sc[j] = sc[i] /\ j <= i)

\* max(emotion_scores, key=emotion_scores.get): emotion_scores holds the emotions of
\* positive score in table order, and max returns the first maximal one.
MaxKey(table, t) ==
  LET sc == [i \in DOMAIN table |-> Score(table[i].keywords, t)]
      hit == {i \in DOMAIN table : sc[i] > 0}
  IN CHOOSE i \in hit : \A j \in hit : sc[j] < sc[i] \/ (sc[j] = sc[i] /\ i <= j)

EmotionScores(table, t) ==
  {i \in DOMAIN table : Score(table[i].keywords, t) > 0}

Min2(a, b) == IF a <= b THEN a ELSE b

Max2(a, b) == IF a >= b THEN a ELSE b

\* Mutant: _get_sentiment_score answers a failure of TextBlob with -1.0.
_get_sentiment_score_negative(text, pol) == IF pol.ok THEN pol.v ELSE -ONE

\* EmotionDetector._get_sentiment_score: pol is what TextBlob(text).sentiment.polarity
\* answered, [ok |-> TRUE, v |-> polarity] or, if it raised, [ok |-> FALSE, ...].
_get_sentiment_score(text, pol) == IF pol.ok THEN pol.v ELSE 0

SentimentErrors(pol) == IF pol.ok THEN <<>> ELSE <<"TextBlob">>

\* Mutant: the keyword confidence as a percentage.
FallbackConfidence_percent(score) == Min2(80, score * 20 + 30)

\* emotion_detector.py: min(0.8, score * 0.2 + 0.3), in tenths
FallbackConfidence(score) == Min2(8, score * 2 + 3)

\* Mutant: the default of _fallback_detection takes the base confidence 0.3.
FallbackPick_default_base(text) ==
  LET text_lower == Lower(text)
      best == MaxKey(emotion_keywords, text_lower)
  IN IF EmotionScores(emotion_keywords, text_lower) # {}
       THEN [emotion |-> emotion_keywords[best].emotion,
             confidence |->
               FallbackConfidence(Score(emotion_keywords[best].keywords, text_lower))]
       ELSE [emotion |-> "neutral", confidence |-> 3]

\* EmotionDetector._fallback_detection (emotion_detector.py), lines 195-220:
\* detected_emotion and confidence
FallbackPick(text) ==
  LET text_lower == Lower(text)
      best == MaxKey(emotion_keywords, text_lower)
  IN IF EmotionScores(emotion_keywords, text_lower) # {}
       THEN [emotion |-> emotion_keywords[best].emotion,
             confidence |->
               FallbackConfidence(Score(emotion_keywords[best].keywords, text_lower))]
       ELSE [emotion |-> "neutral", confidence |-> 5]

\* FallbackPick, computed once for each text of the model
FallbackPicks == [t \in ClassifiedTexts |-> FallbackPick(t)]

\* EmotionDetector._fallback_detection (emotion_detector.py)
_fallback_detection(text, pol) ==
  Result(FallbackPicks[text].emotion, FallbackPicks[text].confidence,
         _get_sentiment_score(text, pol), <<"keywords", "TextBlob">>, SentimentErrors(pol))

\* Mutant: the confidence of ml_utils.py falls as the score grows.
MlFallbackConfidence_falling(score) == Max2(0, 9 - score * 3)

\* ml_utils.py: min(0.9, score * 0.3 + 0.3), in tenths
MlFallbackConfidence(score) == Min2(9, score * 3 + 3)

\* the pair (emotion, confidence) that ml_utils.py's detector returns
MlResult(emotion, confidence, calls, errors) ==
  [raised |-> FALSE, emotion |-> emotion, confidence |-> confidence,
   calls |-> calls, errors |-> errors]

\* EmotionDetector._fallback_emotion_detection (ml_utils.py): (emotion, confidence)
MlFallbackPick(text) ==
  LET t == Lower(text)
      best == MaxKey(ml_emotion_keywords, t)
  IN IF ~Truthy(Strip(text))
       THEN [emotion |-> "neutral", confidence |-> 5]
       ELSE IF EmotionScores(ml_emotion_keywords, t) # {}
         THEN [emotion |-> ml_emotion_keywords[best].emotion,
               confidence |->
                 MlFallbackConfidence(Score(ml_emotion_keywords[best].keywords, t))]
         ELSE [emotion |-> "neutral", confidence |-> 5]

\* MlFallbackPick, computed once for each text of the model
MlFallbackPicks == [t \in ClassifiedTexts |-> MlFallbackPick(t)]

\* EmotionDetector._fallback_emotion_detection (ml_utils.py)
_fallback_emotion_detection(text) ==
  MlResult(MlFallbackPicks[text].emotion, MlFallbackPicks[text].confidence,
           <<"keywords">>, <<>>)

\* EmotionDetector.analyze_sentiment (ml_utils.py)
analyze_sentiment(text, pol) == IF pol.ok THEN pol.v ELSE 0

\* Mutant: calculate_intensity without its final clamp.
calculate_intensity_unclamped(emotion, confidence, sentiment_score) ==
  IF emotion \in {"joy", "love"}
    THEN confidence * (2 * ONE + sentiment_score)
    ELSE IF emotion \in {"sadness", "anger", "fear"}
      THEN confidence * (2 * ONE - sentiment_score)
      ELSE confidence * (2 * ONE)

\* Mutant: calculate_intensity counting surprise among the positive emotions.
calculate_intensity_surprise_positive(emotion, confidence, sentiment_score) ==
  LET intensity ==
        IF emotion \in {"joy", "love", "surprise"}
          THEN confidence * (2 * ONE + sentiment_score)
          ELSE IF emotion \in {"sadness", "anger", "fear"}
            THEN confidence * (2 * ONE - sentiment_score)
            ELSE confidence * (2 * ONE)
  IN Max2(0, Min2(IntensityOne, intensity))

\* EmotionDetector.calculate_intensity; the result is in units of 1/IntensityOne.
calculate_intensity(emotion, confidence, sentiment_score) ==
  LET base_intensity == confidence
      intensity ==
        IF emotion \in {"joy", "love"}
          THEN base_intensity * (2 * ONE + sentiment_score)
          ELSE IF emotion \in {"sadness", "anger", "fear"}
            THEN base_intensity * (2 * ONE - sentiment_score)
            ELSE base_intensity * (2 * ONE)
  IN Max2(0, Min2(IntensityOne, intensity))

(***************************************************************************)
(* The pickled artifacts.  An unpickled object is known to the code only   *)
(* through hasattr and the calls it makes; `present` is FALSE for None.    *)
(* Unpickled objects are taken to be truthy, as scikit-learn's estimators, *)
(* vectorizers and encoders are.                                           *)
(***************************************************************************)
ModelObject(predict, predict_proba) ==
  [present |-> TRUE, predict |-> predict, predict_proba |-> predict_proba]

NoModel == [present |-> FALSE, predict |-> FALSE, predict_proba |-> FALSE]

VectorizerObject(transform, fit_transform) ==
  [present |-> TRUE, transform |-> transform, fit_transform |-> fit_transform]

NoVectorizer == [present |-> FALSE, transform |-> FALSE, fit_transform |-> FALSE]

\* has_classes: hasattr(obj, 'classes_')
EncoderObject(inverse_transform, has_classes, classes) ==
  [present |-> TRUE, inverse_transform |-> inverse_transform,
   has_classes |-> has_classes, classes_ |-> classes]

NoEncoder ==
  [present |-> FALSE, inverse_transform |-> FALSE, has_classes |-> FALSE, classes_ |-> <<>>]

\* EmotionDetector.__init__: self.emotion_labels
DefaultLabels == <<"joy", "sadness", "anger", "fear", "surprise", "love", "neutral">>

\* The closed label set of the data model.
EmotionLabel == {DefaultLabels[i] : i \in DOMAIN DefaultLabels}

\* A LabelEncoder fitted on the seven labels holds them sorted.
SortedLabels == <<"anger", "fear", "joy", "love", "neutral", "sadness", "surprise">>

\* A LabelEncoder fitted on another label universe.
ForeignLabels == <<"happy", "sad", "disgust">>

ModelObjects == {ModelObject(TRUE, TRUE), ModelObject(TRUE, FALSE), ModelObject(FALSE, FALSE)}

VectorizerObjects ==
  {VectorizerObject(TRUE, TRUE), VectorizerObject(FALSE, TRUE), VectorizerObject(FALSE, FALSE)}

EncoderObjects ==
  {EncoderObject(TRUE, TRUE, SortedLabels), EncoderObject(TRUE, TRUE, ForeignLabels),
   EncoderObject(FALSE, FALSE, <<>>)}

(***************************************************************************)
(* Files on disk.  A file is missing, unreadable (pickle.load and          *)
(* joblib.load both raise) or holds an object.                             *)
(***************************************************************************)
File(exists, readable, obj) == [exists |-> exists, readable |-> readable, obj |-> obj]

FilesOf(objects, none) ==
  {File(FALSE, FALSE, none), File(TRUE, FALSE, none)} \cup {File(TRUE, TRUE, o) : o \in objects}

\* the candidate lists of load_models, by their lengths
model_files == 5

vectorizer_files == 4

label_encoder_files == 3

\* the directories of n candidate names in which only the first MaxPresent may exist
Candidates(n, objects, none) ==
  {d \in [1..n -> FilesOf(objects, none)] : \A i \in 1..n : i > MaxPresent => ~d[i].exists}

\* for f in files: if os.path.exists(path): try: load ... break / except: continue
Loadable(files) == {i \in DOMAIN files : files[i].exists /\ files[i].readable}

FirstLoaded(files, none) ==
  IF Loadable(files) = {}
    THEN none
    ELSE files[CHOOSE i \in Loadable(files) : \A j \in Loadable(files) : i <= j].obj

\* what each of the three loops of load_models (lines 45-108) can leave in its field
ModelLoads ==
  {FirstLoaded(d, NoModel) : d \in Candidates(model_files, ModelObjects, NoModel)}

VectorizerLoads ==
  {FirstLoaded(d, NoVectorizer) :
     d \in Candidates(vectorizer_files, VectorizerObjects, NoVectorizer)}

EncoderLoads ==
  {FirstLoaded(d, NoEncoder) :
     d \in Candidates(label_encoder_files, EncoderObjects, NoEncoder)}

\* EmotionDetector.load_models (emotion_detector.py), lines 110-132: the fields it
\* leaves, m, v and le being what the three loops loaded
load_models(m, v, le) ==
  LET model_loaded == m.present
      vectorizer_loaded == v.present
      label_encoder_loaded == le.present
  IN IF ~model_loaded \/ ~vectorizer_loaded
       THEN [raised |-> FALSE,
             model |-> NoModel, vectorizer |-> NoVectorizer, label_encoder |-> NoEncoder,
             emotion_labels |-> DefaultLabels]
       ELSE [raised |-> FALSE,
             model |-> IF ~(m.predict \/ m.predict_proba) THEN NoModel ELSE m,
             vectorizer |-> IF ~(v.transform \/ v.fit_transform) THEN NoVectorizer ELSE v,
             label_encoder |-> le,
             emotion_labels |->
               IF label_encoder_loaded /\ le.present /\ le.has_classes
                 THEN le.classes_ ELSE DefaultLabels]

\* ml_utils.py names one file of each kind
MlDisks ==
  [model : FilesOf(ModelObjects, NoModel),
   vectorizer : FilesOf(VectorizerObjects, NoVectorizer),
   encoder : FilesOf(EncoderObjects, NoEncoder)]

\* Mutant: load_models of ml_utils.py counts the detector loaded without a decoder.
ml_load_models_encoder_optional(disk) ==
  LET bad(f) == f.exists /\ ~f.readable
      m == IF disk.model.exists /\ disk.model.readable THEN disk.model.obj ELSE NoModel
      v == IF ~bad(disk.model) /\ disk.vectorizer.exists /\ disk.vectorizer.readable
             THEN disk.vectorizer.obj ELSE NoVectorizer
      le == IF ~bad(disk.model) /\ ~bad(disk.vectorizer)
                 /\ disk.encoder.exists /\ disk.encoder.readable
              THEN disk.encoder.obj ELSE NoEncoder
      raised == bad(disk.model) \/ bad(disk.vectorizer) \/ bad(disk.encoder)
  IN [raised |-> FALSE, model |-> m, vectorizer |-> v, label_encoder |-> le,
      is_loaded |-> ~raised /\ m.present /\ v.present]

\* Mutant: load_models of ml_utils.py without its try/except.
ml_load_models_no_except(disk) ==
  LET bad(f) == f.exists /\ ~f.readable
      raised == bad(disk.model) \/ bad(disk.vectorizer) \/ bad(disk.encoder)
  IN [raised |-> raised,
      model |-> IF raised THEN NoModel ELSE disk.model.obj,
      vectorizer |-> IF raised THEN NoVectorizer ELSE disk.vectorizer.obj,
      label_encoder |-> IF raised THEN NoEncoder ELSE disk.encoder.obj,
      is_loaded |-> ~raised /\ disk.model.exists /\ disk.vectorizer.exists
                      /\ disk.encoder.exists]

\* EmotionDetector.load_models (ml_utils.py): joblib.load of an unreadable file raises
\* and the except clause ends the load with the fields assigned so far; the load
\* itself does not raise.
ml_load_models(disk) ==
  LET bad(f) == f.exists /\ ~f.readable
      m == IF disk.model.exists /\ disk.model.readable THEN disk.model.obj ELSE NoModel
      v == IF ~bad(disk.model) /\ disk.vectorizer.exists /\ disk.vectorizer.readable
             THEN disk.vectorizer.obj ELSE NoVectorizer
      le == IF ~bad(disk.model) /\ ~bad(disk.vectorizer)
                 /\ disk.encoder.exists /\ disk.encoder.readable
              THEN disk.encoder.obj ELSE NoEncoder
      raised == bad(disk.model) \/ bad(disk.vectorizer) \/ bad(disk.encoder)
  IN [raised |-> FALSE, model |-> m, vectorizer |-> v, label_encoder |-> le,
      is_loaded |-> ~raised /\ m.present /\ v.present /\ le.present]

(***************************************************************************)
(* What the collaborators answer on one detection call.                    *)
(***************************************************************************)
Ok(v) == [ok |-> TRUE, v |-> v]

\* the value model.predict(...)[0] gave: a Python int, a numpy.int64 (not an instance
\* of int) or a str
PyInt(n) == [t |-> "int", n |-> n, s |-> ""]

NpInt64(n) == [t |-> "int64", n |-> n, s |-> ""]

PyStr(s) == [t |-> "str", n |-> 0, s |-> s]

PredictedValues == {PyInt(0), PyInt(7), NpInt64(1), PyStr("disgust")}

\* max(predict_proba(...)[0]), in tenths: a probability
Probabilities == {4, ONE}

\* TextBlob(text).sentiment.polarity, in tenths
Polarities == {-ONE, 0, ONE}

PredictAnswers == {[ok |-> FALSE, v |-> PyInt(0)]} \cup {Ok(p) : p \in PredictedValues}

ProbaAnswers == {[ok |-> FALSE, v |-> 0]} \cup {Ok(p) : p \in Probabilities}

\* TextBlob finds no word in a blank text: polarity 0.0
PolarityAnswers(text) ==
  {[ok |-> FALSE, v |-> 0]}
    \cup {Ok(p) : p \in IF Strip(text) = <<>> THEN {0} ELSE Polarities}

\* The answers to one call; a collaborator that is not reached (an earlier one
\* raised) is given the raising answer, which nothing reads.
NotAsked ==
  [transform |-> FALSE, predict |-> [ok |-> FALSE, v |-> PyInt(0)],
   predict_proba |-> [ok |-> FALSE, v |-> 0], polarity |-> [ok |-> FALSE, v |-> 0]]

Called(calls) == {calls[i] : i \in DOMAIN calls}

\* the answers a call received: those of the collaborators it called
Heard(calls, a) ==
  [transform |-> IF "transform" \in Called(calls) THEN a.transform ELSE NotAsked.transform,
   predict |-> IF "predict" \in Called(calls) THEN a.predict ELSE NotAsked.predict,
   predict_proba |->
     IF "predict_proba" \in Called(calls) THEN a.predict_proba ELSE NotAsked.predict_proba,
   polarity |-> IF "TextBlob" \in Called(calls) THEN a.polarity ELSE NotAsked.polarity]

Answers(text) ==
  {a \in [transform : BOOLEAN, predict : PredictAnswers, predict_proba : ProbaAnswers,
          polarity : PolarityAnswers(text)] :
     /\ ~a.transform => ~a.predict.ok
     /\ ~a.predict.ok => ~a.predict_proba.ok}

\* str(prediction_encoded)
Str(p) == IF p.t = "str" THEN p.s ELSE ToString(p.n)

\* LabelEncoder.inverse_transform([p])[0]: the class at index p, or ValueError
CanDecode(enc, p) == p.t \in {"int", "int64"} /\ 0 <= p.n /\ p.n < Len(enc.classes_)

(***************************************************************************)
(* emotion_detector.py: detection.                                         *)
(***************************************************************************)
\* a try body that raised after making `calls`, `errors` being the call that raised
Raised(calls, errors) ==
  [raised |-> TRUE, emotion |-> "", confidence |-> 0, sentiment_score |-> 0,
   calls |-> calls, errors |-> errors]

\* if isinstance(prediction_encoded, (int, float)) and 0 <= int(...) < len(labels)
TableLabel(labels, p) ==
  IF p.t = "int" /\ 0 <= p.n /\ p.n < Len(labels) THEN labels[p.n + 1] ELSE Str(p)

\* lines 166-181: the label of the predicted value
DecodeLabel(enc, labels, p) ==
  IF enc.present /\ enc.inverse_transform
    THEN IF CanDecode(enc, p) THEN enc.classes_[p.n + 1] ELSE TableLabel(labels, p)
    ELSE TableLabel(labels, p)

DecodeCalls(enc) ==
  IF enc.present /\ enc.inverse_transform THEN <<"inverse_transform">> ELSE <<>>

DecodeErrors(enc, p) ==
  IF enc.present /\ enc.inverse_transform /\ ~CanDecode(enc, p)
    THEN <<"inverse_transform">> ELSE <<>>

\* EmotionDetector._predict_with_model, the try body (lines 158-187)
PredictTry(m, v, enc, labels, text, a) ==
  IF ~v.transform \/ ~a.transform
    THEN Raised(<<"transform">>, <<"transform">>)
    ELSE IF ~m.predict \/ ~a.predict.ok
      THEN Raised(<<"transform", "predict">>, <<"predict">>)
      ELSE IF ~m.predict_proba \/ ~a.predict_proba.ok
        THEN Raised(<<"transform", "predict", "predict_proba">>, <<"predict_proba">>)
        ELSE [raised |-> FALSE,
              emotion |-> DecodeLabel(enc, labels, a.predict.v),
              confidence |-> a.predict_proba.v,
              sentiment_score |-> _get_sentiment_score(text, a.polarity),
              calls |-> <<"transform", "predict", "predict_proba">>
                          \o DecodeCalls(enc) \o <<"TextBlob">>,
              errors |-> DecodeErrors(enc, a.predict.v)
                           \o SentimentErrors(a.polarity)]

\* Mutant: the except clause of _predict_with_model is gone, the exception propagates.
_predict_with_model_reraises(m, v, enc, labels, text, a) ==
  PredictTry(m, v, enc, labels, text, a)

\* EmotionDetector._predict_with_model: except Exception -> _fallback_detection(text)
_predict_with_model(m, v, enc, labels, text, a) ==
  LET r == PredictTry(m, v, enc, labels, text, a)
  IN IF r.raised
       THEN After(r.calls, r.errors, _fallback_detection(text, a.polarity))
       ELSE r

\* Mutant: detect_emotion without its test for empty and blank text.
detect_emotion_no_blank_test(m, v, enc, labels, text, a) ==
  IF m.present /\ v.present
    THEN _predict_with_model(m, v, enc, labels, text, a)
    ELSE _fallback_detection(text, a.polarity)

\* EmotionDetector.detect_emotion: the outer except returns ('neutral', 0.5, 0.0)
detect_emotion(m, v, enc, labels, text, a) ==
  LET r == IF m.present /\ v.present
             THEN _predict_with_model(m, v, enc, labels, text, a)
             ELSE _fallback_detection(text, a.polarity)
  IN IF ~Truthy(text) \/ ~Truthy(Strip(text))
       THEN Result("neutral", 5, 0, <<>>, <<>>)
       ELSE IF r.raised THEN Result("neutral", 5, 0, r.calls, r.errors) ELSE r

(***************************************************************************)
(* ml_utils.py: detection.                                                 *)
(***************************************************************************)
\* EmotionDetector.predict_emotion, the trained branch of the try body (lines 65-74)
MlPredictTry(m, v, enc, a) ==
  IF ~v.transform \/ ~a.transform
    THEN Raised(<<"transform">>, <<"transform">>)
    ELSE IF ~m.predict \/ ~a.predict.ok
      THEN Raised(<<"transform", "predict">>, <<"predict">>)
      ELSE IF ~m.predict_proba \/ ~a.predict_proba.ok
        THEN Raised(<<"transform", "predict", "predict_proba">>, <<"predict_proba">>)
        ELSE IF ~enc.inverse_transform \/ ~CanDecode(enc, a.predict.v)
          THEN Raised(<<"transform", "predict", "predict_proba", "inverse_transform">>,
                      <<"inverse_transform">>)
          ELSE [raised |-> FALSE,
                emotion |-> enc.classes_[a.predict.v.n + 1],
                confidence |-> a.predict_proba.v,
                sentiment_score |-> 0,
                calls |-> <<"transform", "predict", "predict_proba", "inverse_transform">>,
                errors |-> <<>>]

\* EmotionDetector.predict_emotion
predict_emotion(loaded, m, v, enc, text, a) ==
  LET t == Lower(Strip(text))
      r == MlPredictTry(m, v, enc, a)
  IN IF ~loaded \/ ~Truthy(Strip(text))
       THEN _fallback_emotion_detection(text)
       ELSE IF v.present /\ m.present /\ enc.present
         THEN IF r.raised
                THEN After(r.calls, r.errors, _fallback_emotion_detection(t))
                ELSE MlResult(r.emotion, r.confidence, r.calls, r.errors)
         ELSE _fallback_emotion_detection(t)

(***************************************************************************)
(* State machine of one process: construction of the global detector, then *)
(* detection calls, each returning to its caller.                          *)
(***************************************************************************)
NoLast ==
  [text |-> <<>>, raised |-> FALSE, emotion |-> "", confidence |-> 0,
   sentiment_score |-> 0, calls |-> <<>>, errors |-> <<>>, answers |-> NotAsked]

NoProbe == [op |-> "none"]

\* a request: the endpoint, current_user.id of its session and the text of its form
Request(route, user, text) == [route |-> route, user |-> user, text |-> text]

NoRequest == Request("none", 0, <<>>)

Init ==
  /\ impl = "none"
  /\ model = NoModel
  /\ vectorizer = NoVectorizer
  /\ label_encoder = NoEncoder
  /\ emotion_labels = DefaultLabels
  /\ is_loaded = FALSE
  /\ last = NoLast
  /\ probe = NoProbe
  /\ conversations = <<>>
  /\ journal_entries = <<>>
  /\ emotion_history = <<>>
  /\ response = "none"
  /\ request = NoRequest
  /\ previous = NoProbe

\* emotion_detector = EmotionDetector()   (emotion_detector.py)
Construct ==
  /\ impl = "none"
  /\ \E m \in ModelLoads, v \in VectorizerLoads, le \in EncoderLoads :
       LET f == load_models(m, v, le)
       IN /\ model' = f.model
          /\ vectorizer' = f.vectorizer
          /\ label_encoder' = f.label_encoder
          /\ emotion_labels' = f.emotion_labels
          /\ impl' = IF f.raised THEN "crashed" ELSE "emotion_detector"
  /\ UNCHANGED <<is_loaded, last, probe, store, response, request, previous>>

\* emotion_detector = EmotionDetector()   (ml_utils.py)
MlConstruct ==
  /\ impl = "none"
  /\ \E disk \in MlDisks :
       LET f == ml_load_models(disk)
       IN /\ model' = f.model
          /\ vectorizer' = f.vectorizer
          /\ label_encoder' = f.label_encoder
          /\ is_loaded' = f.is_loaded
          /\ impl' = IF f.raised THEN "crashed" ELSE "ml_utils"
  /\ UNCHANGED <<emotion_labels, last, probe, store, response, request, previous>>

\* The reading the handlers of routes_1750350728745.py take of a text:
\* detect_emotion, then calculate_intensity (send_message, lines 115-116).
Reading(text, a) ==
  LET r == detect_emotion(model, vectorizer, label_encoder, emotion_labels, text, a)
  IN [text |-> text, raised |-> r.raised, emotion |-> r.emotion,
      confidence |-> r.confidence, sentiment_score |-> r.sentiment_score,
      intensity |-> calculate_intensity(r.emotion, r.confidence, r.sentiment_score),
      calls |-> r.calls, errors |-> r.errors, answers |-> Heard(r.calls, a)]

\* The reading the handlers of routes.py take of a text:
\* predict_emotion, then analyze_sentiment (send_message, lines 177-178).
MlReading(text, a) ==
  LET r == predict_emotion(is_loaded, model, vectorizer, label_encoder, text, a)
  IN [text |-> text, raised |-> r.raised, emotion |-> r.emotion,
      confidence |-> r.confidence, sentiment_score |-> analyze_sentiment(text, a.polarity),
      calls |-> r.calls \o <<"TextBlob">>, errors |-> r.errors \o SentimentErrors(a.polarity),
      answers |-> Heard(r.calls \o <<"TextBlob">>, a)]

\* Mutant: a call whose inference raised drops the model.
ModelAfterCall_drops_on_failure(m, r) ==
  IF Called(r.errors) \cap {"transform", "predict", "predict_proba", "inverse_transform"} # {}
    THEN NoModel ELSE m

\* Mutant: a call that used the classifier without an error releases it.
ModelAfterCall_releases_after_use(m, r) ==
  IF "predict" \in Called(r.calls) /\ r.errors = <<>> THEN NoModel ELSE m

\* self.model after a detection call that returned r: detect_emotion,
\* _predict_with_model and predict_emotion assign no field of the detector.
ModelAfterCall(m, r) == m

\* emotion_detector.detect_emotion(text), then calculate_intensity
DetectEmotion ==
  /\ impl = "emotion_detector"
  /\ last = NoLast
  /\ \E text \in Texts : \E a \in Answers(text) : last' = Reading(text, a)
  /\ model' = ModelAfterCall(model, last')
  /\ UNCHANGED <<impl, vectorizer, label_encoder, emotion_labels, is_loaded, probe, store,
               response, request, previous>>

\* emotion_detector.predict_emotion(text), then analyze_sentiment
PredictEmotion ==
  /\ impl = "ml_utils"
  /\ last = NoLast
  /\ \E text \in Texts : \E a \in Answers(text) : last' = MlReading(text, a)
  /\ model' = ModelAfterCall(model, last')
  /\ UNCHANGED <<impl, vectorizer, label_encoder, emotion_labels, is_loaded, probe, store,
               response, request, previous>>

\* the caller takes the result
Return ==
  /\ last # NoLast
  /\ last' = NoLast
  /\ UNCHANGED <<detector, probe, store, response, request, previous>>

Next == Construct \/ MlConstruct \/ DetectEmotion \/ PredictEmotion \/ Return

Spec == Init /\ [][Next]_vars

(***************************************************************************)
(* calculate_intensity as a function: every label, confidence and          *)
(* sentiment of the grid is tried once.                                    *)
(***************************************************************************)
\* labels outside the closed set: a foreign class, a stringified index
UnknownLabels == {"disgust", "7"}

IntensityProbes ==
  [op : {"calculate_intensity"}, emotion : EmotionLabel \cup UnknownLabels,
   confidence : 0..ONE, sentiment_score : (-ONE)..ONE, done : {FALSE}, result : {0}]

InitIntensity ==
  /\ impl = "none"
  /\ model = NoModel
  /\ vectorizer = NoVectorizer
  /\ label_encoder = NoEncoder
  /\ emotion_labels = DefaultLabels
  /\ is_loaded = FALSE
  /\ last = NoLast
  /\ probe \in IntensityProbes
  /\ conversations = <<>>
  /\ journal_entries = <<>>
  /\ emotion_history = <<>>
  /\ response = "none"
  /\ request = NoRequest
  /\ previous = NoProbe

CalculateIntensity ==
  /\ probe.op = "calculate_intensity"
  /\ ~probe.done
  /\ probe' = [probe EXCEPT
                 !.done = TRUE,
                 !.result = calculate_intensity(probe.emotion, probe.confidence,
                                                probe.sentiment_score)]
  /\ UNCHANGED <<detector, last, store, response, request, previous>>

NextIntensity == CalculateIntensity

SpecIntensity == InitIntensity /\ [][NextIntensity]_vars

(***************************************************************************)
(* The keyword classifiers as functions: every text of the model is        *)
(* classified once by each.                                                *)
(***************************************************************************)
KeywordProbes ==
  [op : {"_fallback_detection", "_fallback_emotion_detection"}, text : Texts,
   done : {FALSE}, emotion : {""}, confidence : {0}]

InitKeyword ==
  /\ impl = "none"
  /\ model = NoModel
  /\ vectorizer = NoVectorizer
  /\ label_encoder = NoEncoder
  /\ emotion_labels = DefaultLabels
  /\ is_loaded = FALSE
  /\ last = NoLast
  /\ probe \in KeywordProbes
  /\ conversations = <<>>
  /\ journal_entries = <<>>
  /\ emotion_history = <<>>
  /\ response = "none"
  /\ request = NoRequest
  /\ previous = NoProbe

FallbackDetection ==
  /\ probe.op = "_fallback_detection"
  /\ ~probe.done
  /\ \E pol \in PolarityAnswers(probe.text) :
       LET r == _fallback_detection(probe.text, pol)
       IN probe' = [probe EXCEPT
                      !.done = TRUE, !.emotion = r.emotion, !.confidence = r.confidence]
  /\ UNCHANGED <<detector, last, store, response, request, previous>>

MlFallbackDetection ==
  /\ probe.op = "_fallback_emotion_detection"
  /\ ~probe.done
  /\ LET r == _fallback_emotion_detection(probe.text)
     IN probe' = [probe EXCEPT
                    !.done = TRUE, !.emotion = r.emotion, !.confidence = r.confidence]
  /\ UNCHANGED <<detector, last, store, response, request, previous>>

NextKeyword == FallbackDetection \/ MlFallbackDetection

SpecKeyword == InitKeyword /\ [][NextKeyword]_vars

(***************************************************************************)
(* The request handlers and the tables they write.  A nullable column      *)
(* holds <<>> for NULL and <<v>> for the value v; an id is the position of *)
(* the row in its table.                                                   *)
(***************************************************************************)
\* current_user.id of the logged-in users
Users == {1, 2}

Null == <<>>

Some(v) == <<v>>

\* what generate_bot_response returns: one of its templates, drawn by random.choice
BotReply == <<"r", "e", "p", "l", "y">>

\* the title journal() gives an entry submitted without one
DefaultTitle == <<"J", "o", "u", "r", "n", "a", "l", " ", "E", "n", "t", "r", "y">>

\* the texts a form field is submitted with
FormTexts == { <<>>, <<" ", " ">>, <<" ", "S", "a", "d", " ">> }

Titles == { <<>>, <<" ", "t">> }

Conversation(id, user_id, message, is_user_message, emotion, emotion_confidence, sentiment_score, timestamp) ==
  [id |-> id, user_id |-> user_id, message |-> message,
   is_user_message |-> is_user_message, emotion |-> emotion,
   emotion_confidence |-> emotion_confidence, sentiment_score |-> sentiment_score,
   timestamp |-> timestamp]

JournalEntry(id, user_id, title, content, emotion, emotion_confidence, sentiment_score, timestamp) ==
  [id |-> id, user_id |-> user_id, title |-> title, content |-> content,
   emotion |-> emotion, emotion_confidence |-> emotion_confidence,
   sentiment_score |-> sentiment_score, created_at |-> timestamp]

\* Mutant: the row stores the sentiment as its confidence and the confidence as its
\* sentiment.
EmotionHistory_swaps_scores(id, user_id, emotion, confidence, sentiment_score, intensity, source_type, source_id, timestamp) ==
  [id |-> id, user_id |-> user_id, emotion |-> emotion, confidence |-> sentiment_score,
   sentiment_score |-> confidence, intensity |-> intensity,
   source_type |-> source_type, source_id |-> source_id, timestamp |-> timestamp]

EmotionHistory(id, user_id, emotion, confidence, sentiment_score, intensity, source_type, source_id, timestamp) ==
  [id |-> id, user_id |-> user_id, emotion |-> emotion, confidence |-> confidence,
   sentiment_score |-> sentiment_score, intensity |-> intensity,
   source_type |-> source_type, source_id |-> source_id, timestamp |-> timestamp]

\* datetime.utcnow, the column default of timestamp and created_at, in ticks of
\* half a day.  The clock does not run backwards: it reads no less than the stamp
\* of any row already stored.
Ticks == 0 .. MaxTick

Stamps ==
  {conversations[i].timestamp : i \in DOMAIN conversations}
    \cup {journal_entries[i].created_at : i \in DOMAIN journal_entries}
    \cup {emotion_history[i].timestamp : i \in DOMAIN emotion_history}

Clock == {t \in Ticks : \A u \in Stamps : u <= t}

\* the submissions this process has committed so far, its clock having started at 0:
\* each wrote one row carrying a reading
Submissions ==
  Cardinality({i \in DOMAIN conversations :
                 conversations[i].is_user_message /\ conversations[i].timestamp >= 0})
    + Cardinality({i \in DOMAIN journal_entries : journal_entries[i].created_at >= 0})

\* the artifacts the application finds at start: none, a model and a vectorizer,
\* or these and a label encoder
AppArtifacts ==
  { [model |-> NoModel, vectorizer |-> NoVectorizer, label_encoder |-> NoEncoder],
    [model |-> ModelObject(TRUE, TRUE), vectorizer |-> VectorizerObject(TRUE, TRUE),
     label_encoder |-> NoEncoder],
    [model |-> ModelObject(TRUE, TRUE), vectorizer |-> VectorizerObject(TRUE, TRUE),
     label_encoder |-> EncoderObject(TRUE, TRUE, SortedLabels)] }

AsFile(obj) == File(obj.present, obj.present, obj)

\* what the collaborators answer while a handler runs: the model predicts an index
\* of the label table or one past its end
AppAnswers(text) ==
  {a \in Answers(text) : a.predict.ok => a.predict.v \in {PyInt(0), PyInt(7)}}

\* the detector the application builds at start from the artifacts art
Started(art) ==
  LET m == art.model
      v == art.vectorizer
      le == art.label_encoder
  IN
  \/ LET f == load_models(m, v, le)
     IN /\ impl = "emotion_detector"
        /\ model = f.model
        /\ vectorizer = f.vectorizer
        /\ label_encoder = f.label_encoder
        /\ emotion_labels = f.emotion_labels
        /\ is_loaded = FALSE
  \/ LET f == ml_load_models([model |-> AsFile(m), vectorizer |-> AsFile(v),
                              encoder |-> AsFile(le)])
     IN /\ impl = "ml_utils"
        /\ model = f.model
        /\ vectorizer = f.vectorizer
        /\ label_encoder = f.label_encoder
        /\ emotion_labels = DefaultLabels
        /\ is_loaded = f.is_loaded

AppInit ==
  /\ \E art \in AppArtifacts : Started(art)
  /\ last = NoLast
  /\ probe = NoProbe
  /\ conversations = <<>>
  /\ journal_entries = <<>>
  /\ emotion_history = <<>>
  /\ response = "none"
  /\ request = NoRequest
  /\ previous = NoProbe

\* send_message of routes_1750350728745.py.  user_conv.id and with it source_id are
\* read before any flush: the row has no id yet and source_id is NULL.
SendMessage ==
  /\ impl = "emotion_detector"
  /\ response = "none"
  /\ Submissions < MaxSubmissions
  /\ \E user \in Users, message \in FormTexts, commit \in BOOLEAN, now \in Clock :
       /\ request' = Request("send_message", user, message)
       /\ LET user_message == Strip(message)
          IN IF ~Truthy(user_message)
            THEN /\ response' = "redirect chat"
                 /\ UNCHANGED <<last, store>>
            ELSE \E a \in AppAnswers(user_message) : \E r \in {Reading(user_message, a)} :
                   LET user_conv ==
                         Conversation(Len(conversations) + 1, user, user_message, TRUE,
                                      Some(r.emotion), Some(r.confidence),
                                      Some(r.sentiment_score), now)
                       history ==
                         EmotionHistory(Len(emotion_history) + 1, user, r.emotion,
                                        r.confidence, r.sentiment_score, r.intensity,
                                        "chat", Null, now)
                       bot_conv ==
                         Conversation(Len(conversations) + 2, user, BotReply, FALSE,
                                      Null, Null, Null, now)
                   IN /\ last' = r
                      /\ IF r.raised
                           THEN /\ response' = "error"
                                /\ UNCHANGED store
                           ELSE /\ response' = "redirect chat"
                                /\ IF commit
                                     THEN /\ conversations' =
                                               conversations \o <<user_conv, bot_conv>>
                                          /\ emotion_history' =
                                               Append(emotion_history, history)
                                          /\ UNCHANGED journal_entries
                                     ELSE UNCHANGED store
  /\ UNCHANGED <<detector, probe, previous>>

\* journal (POST) of routes_1750350728745.py.  The commit is not guarded: when it
\* fails the exception leaves the handler and the session is discarded.
Journal ==
  /\ impl = "emotion_detector"
  /\ response = "none"
  /\ Submissions < MaxSubmissions
  /\ \E user \in Users, form_title \in Titles, form_content \in FormTexts,
        commit \in BOOLEAN, now \in Clock :
       /\ request' = Request("journal", user, form_content)
       /\ LET title == Strip(form_title)
           content == Strip(form_content)
          IN IF ~Truthy(content)
            THEN /\ response' = "redirect journal"
                 /\ UNCHANGED <<last, store>>
            ELSE \E a \in AppAnswers(content) : \E r \in {Reading(content, a)} :
                   LET journal_entry ==
                         JournalEntry(Len(journal_entries) + 1, user,
                                      IF Truthy(title) THEN title ELSE DefaultTitle,
                                      content, Some(r.emotion), Some(r.confidence),
                                      Some(r.sentiment_score), now)
                       history ==
                         EmotionHistory(Len(emotion_history) + 1, user, r.emotion,
                                        r.confidence, r.sentiment_score, r.intensity,
                                        "journal", Null, now)
                   IN /\ last' = r
                      /\ IF r.raised \/ ~commit
                           THEN /\ response' = "error"
                                /\ UNCHANGED store
                           ELSE /\ response' = "redirect journal"
                                /\ journal_entries' = Append(journal_entries, journal_entry)
                                /\ emotion_history' = Append(emotion_history, history)
                                /\ UNCHANGED conversations
  /\ UNCHANGED <<detector, probe, previous>>

\* Mutant: send_message of routes.py whose failed commit is not rolled back and
\* leaves the user message behind, without the bot reply.
MlSendMessage_keeps_user_message ==
  /\ impl = "ml_utils"
  /\ response = "none"
  /\ Submissions < MaxSubmissions
  /\ \E user \in Users, form_message \in FormTexts, now \in Clock :
       /\ Truthy(Strip(form_message))
       /\ request' = Request("send_message", user, form_message)
       /\ \E a \in AppAnswers(Strip(form_message)) :
            \E r \in {MlReading(Strip(form_message), a)} :
              /\ last' = r
              /\ response' = "json 500"
              /\ conversations' =
                   Append(conversations,
                          Conversation(Len(conversations) + 1, user, Strip(form_message),
                                       TRUE, Some(r.emotion), Some(r.confidence),
                                       Some(r.sentiment_score), now))
              /\ UNCHANGED <<journal_entries, emotion_history>>
  /\ UNCHANGED <<detector, probe, previous>>

\* send_message of routes.py: no EmotionHistory row is written; every failure of the
\* analysis or of the commit is caught and rolled back.
MlSendMessage ==
  /\ impl = "ml_utils"
  /\ response = "none"
  /\ Submissions < MaxSubmissions
  /\ \E user \in Users, form_message \in FormTexts, is_json \in BOOLEAN,
        commit \in BOOLEAN, now \in Clock :
       /\ request' = Request("send_message", user, form_message)
       /\ LET message == Strip(form_message)
          IN IF ~Truthy(message)
            THEN /\ response' = IF is_json THEN "json 400" ELSE "redirect chat"
                 /\ UNCHANGED <<last, store>>
            ELSE \E a \in AppAnswers(message) : \E r \in {MlReading(message, a)} :
                   LET user_message ==
                         Conversation(Len(conversations) + 1, user, message, TRUE,
                                      Some(r.emotion), Some(r.confidence),
                                      Some(r.sentiment_score), now)
                       bot_message ==
                         Conversation(Len(conversations) + 2, user, BotReply, FALSE,
                                      Null, Null, Null, now)
                   IN /\ last' = r
                      /\ IF r.raised \/ ~commit
                           THEN /\ response' = IF is_json THEN "json 500"
                                                          ELSE "redirect chat"
                                /\ UNCHANGED store
                           ELSE /\ response' = IF is_json THEN "json 200"
                                                          ELSE "redirect chat"
                                /\ conversations' =
                                     conversations \o <<user_message, bot_message>>
                                /\ UNCHANGED <<journal_entries, emotion_history>>
  /\ UNCHANGED <<detector, probe, previous>>

\* new_journal_entry (POST) of routes.py: a title and a content are both required
MlNewJournalEntry ==
  /\ impl = "ml_utils"
  /\ response = "none"
  /\ Submissions < MaxSubmissions
  /\ \E user \in Users, form_title \in Titles, form_content \in FormTexts,
        commit \in BOOLEAN, now \in Clock :
       /\ request' = Request("new_journal_entry", user, form_content)
       /\ LET title == Strip(form_title)
           content == Strip(form_content)
          IN IF ~Truthy(title) \/ ~Truthy(content)
            THEN /\ response' = "render journal_entry"
                 /\ UNCHANGED <<last, store>>
            ELSE \E a \in AppAnswers(content) : \E r \in {MlReading(content, a)} :
                   LET entry ==
                         JournalEntry(Len(journal_entries) + 1, user, title, content,
                                      Some(r.emotion), Some(r.confidence),
                                      Some(r.sentiment_score), now)
                   IN /\ last' = r
                      /\ IF r.raised \/ ~commit
                           THEN /\ response' = "render journal_entry"
                                /\ UNCHANGED store
                           ELSE /\ response' = "redirect journal"
                                /\ journal_entries' = Append(journal_entries, entry)
                                /\ UNCHANGED <<conversations, emotion_history>>
  /\ UNCHANGED <<detector, probe, previous>>

\* a teardown that would empty the history table as the response leaves
Respond_drops_history ==
  /\ response # "none"
  /\ response' = "none"
  /\ last' = NoLast
  /\ request' = NoRequest
  /\ emotion_history' = <<>>
  /\ UNCHANGED <<detector, probe, conversations, journal_entries, previous>>

\* the response leaves the process, and with it the reading the handler took
Respond ==
  /\ response # "none"
  /\ response' = "none"
  /\ last' = NoLast
  /\ request' = NoRequest
  /\ UNCHANGED <<detector, probe, store, previous>>

AppNext == SendMessage \/ Journal \/ MlSendMessage \/ MlNewJournalEntry \/ Respond

AppSpec == AppInit /\ [][AppNext]_vars

(***************************************************************************)
(* Analytics: EmotionAnalytics of analytics_1750350728748.py, which reads  *)
(* table EmotionHistory, and the analytics endpoints of routes.py, which   *)
(* read table Conversation.                                                *)
(*   float       sum/len and count/total are exact fractions in lowest     *)
(*               terms, Ratio(num, den); 1.0 is Ratio(1, 1)                *)
(*   date        strftime('%Y-%m-%d') and date() of a timestamp: the       *)
(*               number of its day; the strings order as the days do       *)
(*   dict, list  PyDict(f) with f a function on the keys; PyList(s)        *)
(***************************************************************************)
RECURSIVE Gcd(_, _)
Gcd(a, b) == IF b = 0 THEN a ELSE Gcd(b, a % b)

Abs(n) == IF n < 0 THEN -n ELSE n

\* the float num/den, den positive
Ratio(num, den) ==
  LET g == Gcd(Abs(num), den)
  IN [num |-> num \div g, den |-> den \div g]

Zero == Ratio(0, 1)

RECURSIVE Pow10(_)
Pow10(n) == IF n = 0 THEN 1 ELSE 10 * Pow10(n - 1)

\* round(x, ndigits): the multiple of 10^-ndigits nearest to x.  When x lies midway
\* between two of them in this exact arithmetic, the float it stands for lies on
\* either side, as its rounding errors fell: up tells which.
round(x, ndigits, up) ==
  LET scale == Pow10(ndigits)
      n == x.num * scale
      q == n \div x.den
      twice == 2 * (n % x.den)
  IN Ratio(IF twice > x.den \/ (twice = x.den /\ up) THEN q + 1 ELSE q, scale)

RECURSIVE sum(_)
sum(xs) == IF xs = <<>> THEN 0 ELSE Head(xs) + sum(Tail(xs))

\* sum(xs) / len(xs) of floats given in units of 1/unit
Mean(xs, unit) == Ratio(sum(xs), unit * Len(xs))

Range(s) == {s[i] : i \in DOMAIN s}

\* sorted(keys) of distinct numbers
RECURSIVE sorted(_)
sorted(keys) ==
  IF keys = {} THEN <<>>
  ELSE LET least == CHOOSE x \in keys : \A y \in keys : x <= y
       IN <<least>> \o sorted(keys \ {least})

\* the keys of a dict in the order of their insertion: the distinct elements of s
\* by first occurrence
RECURSIVE keys(_)
keys(s) ==
  IF s = <<>> THEN <<>>
  ELSE LET front == keys(SubSeq(s, 1, Len(s) - 1))
       IN IF s[Len(s)] \in Range(front) THEN front ELSE Append(front, s[Len(s)])

PyDict(f) == [type |-> "dict", value |-> f]

PyList(s) == [type |-> "list", value |-> s]

\* timestamp.strftime('%Y-%m-%d'), timestamp.date()
strftime(timestamp) == timestamp \div TicksPerDay

\* datetime.utcnow() - timedelta(days=days)
cutoff_date(now, days) == now - days * TicksPerDay

\* Counter(xs)[x]
Counter(xs, x) == Cardinality({i \in DOMAIN xs : xs[i] = x})

\* Counter(xs).most_common(1)[0][0]: the first element of xs of the largest count
most_common(xs) ==
  LET first == keys(xs)
      i == CHOOSE i \in DOMAIN first :
             /\ \A j \in DOMAIN first : Counter(xs, first[j]) <= Counter(xs, first[i])
             /\ \A j \in 1 .. (i - 1) : Counter(xs, first[j]) < Counter(xs, first[i])
  IN first[i]

(***************************************************************************)
(* analytics_1750350728748.py.  rows is what the query of the method       *)
(* returned.                                                               *)
(***************************************************************************)
\* Mutant: the window excludes the row stamped exactly at the cutoff.
HistoryQuery_after_cutoff(user_id, cutoff) ==
  SelectSeq(emotion_history, LAMBDA h : h.user_id = user_id /\ h.timestamp > cutoff)

\* db.session.query(EmotionHistory).filter(EmotionHistory.user_id == self.user_id,
\*                                         EmotionHistory.timestamp >= cutoff_date).all()
HistoryQuery(user_id, cutoff) ==
  SelectSeq(emotion_history, LAMBDA h : h.user_id = user_id /\ h.timestamp >= cutoff)

\* emotion.intensity or 0.5, in units of 1/IntensityOne
IntensityOrHalf(h) == IF h.intensity = 0 THEN IntensityOne \div 2 ELSE h.intensity

Day(h) == strftime(h.timestamp)

\* [emotion.emotion for emotion in emotions]
Emotions(rows) == [i \in DOMAIN rows |-> rows[i].emotion]

\* the date of each row
Days(rows) == [i \in DOMAIN rows |-> Day(rows[i])]

\* [e.sentiment_score for e in emotions]
Sentiments(rows) == [i \in DOMAIN rows |-> rows[i].sentiment_score]

\* [emotion.intensity or 0.5 for emotion in emotions]
Intensities(rows) == [i \in DOMAIN rows |-> IntensityOrHalf(rows[i])]

\* Mutant: get_emotion_distribution without the factor 100.
get_emotion_distribution_fractions(rows) ==
  IF rows = <<>> THEN PyDict(<<>>)
  ELSE LET emotions == Emotions(rows)
           total_count == Len(emotions)
       IN PyDict([emotion \in Range(emotions) |->
                    Ratio(Counter(emotions, emotion), total_count)])

\* EmotionAnalytics.get_emotion_distribution
get_emotion_distribution(rows) ==
  IF rows = <<>> THEN PyDict(<<>>)
  ELSE LET emotions == Emotions(rows)
           total_count == Len(emotions)
       IN PyDict([emotion \in Range(emotions) |->
                    Ratio(Counter(emotions, emotion) * 100, total_count)])

\* Mutant: get_daily_mood_data without the rounding of the average.
get_daily_mood_data_unrounded(rows, up) ==
  IF rows = <<>> THEN PyList(<<>>)
  ELSE LET dates == sorted(Range(Days(rows)))
           intensities(date) ==
             Intensities(SelectSeq(rows, LAMBDA h : Day(h) = date))
       IN PyList([i \in DOMAIN dates |->
                    [date |-> dates[i],
                     intensity |-> Mean(intensities(dates[i]), IntensityOne),
                     count |-> Len(intensities(dates[i]))]])

\* EmotionAnalytics.get_daily_mood_data
get_daily_mood_data(rows, up) ==
  IF rows = <<>> THEN PyList(<<>>)
  ELSE LET dates == sorted(Range(Days(rows)))
           intensities(date) ==
             Intensities(SelectSeq(rows, LAMBDA h : Day(h) = date))
       IN PyList([i \in DOMAIN dates |->
                    [date |-> dates[i],
                     intensity |-> round(Mean(intensities(dates[i]), IntensityOne), 2, up),
                     count |-> Len(intensities(dates[i]))]])

\* Mutant: the series of an emotion has no point for a date without the emotion.
get_emotion_trends_sparse(rows) ==
  IF rows = <<>> THEN PyDict(<<>>)
  ELSE LET all_emotions == Range(Emotions(rows))
           of(emotion) == SelectSeq(rows, LAMBDA h : h.emotion = emotion)
           dates(emotion) == sorted(Range(Days(of(emotion))))
       IN PyDict([emotion \in all_emotions |->
                    [i \in DOMAIN dates(emotion) |->
                       [x |-> dates(emotion)[i],
                        y |-> Counter(Days(of(emotion)), dates(emotion)[i])]]])

\* EmotionAnalytics.get_emotion_trends: every series has a point for every date of
\* the result, with count 0 where the emotion did not occur
get_emotion_trends(rows) ==
  IF rows = <<>> THEN PyDict(<<>>)
  ELSE LET dates == sorted(Range(Days(rows)))
           all_emotions == Range(Emotions(rows))
           count(date, emotion) ==
             Cardinality({i \in DOMAIN rows :
                            Day(rows[i]) = date /\ rows[i].emotion = emotion})
       IN PyDict([emotion \in all_emotions |->
                    [i \in DOMAIN dates |->
                       [x |-> dates[i], y |-> count(dates[i], emotion)]]])

\* EmotionAnalytics.get_emotion_frequency
get_emotion_frequency(rows) ==
  IF rows = <<>> THEN PyDict(<<>>)
  ELSE LET emotions == Emotions(rows)
       IN PyDict([emotion \in Range(emotions) |-> Counter(emotions, emotion)])

emotion_categories ==
  [Positive |-> {"joy", "love", "surprise"},
   Negative |-> {"sadness", "anger", "fear"},
   Neutral |-> {"neutral"}]

\* Mutant: the score of a category is the sum of its intensities.
get_emotional_balance_sums(rows) ==
  IF rows = <<>> THEN PyDict(<<>>)
  ELSE LET scores(category) ==
             Intensities(SelectSeq(rows, LAMBDA h : h.emotion \in emotion_categories[category]))
       IN PyDict([category \in DOMAIN emotion_categories |->
                    Ratio(sum(scores(category)), IntensityOne)])

\* Mutant: get_emotional_balance without its test for an empty query result.
get_emotional_balance_no_empty_test(rows) ==
  LET scores(category) ==
        Intensities(SelectSeq(rows, LAMBDA h : h.emotion \in emotion_categories[category]))
  IN PyDict([category \in DOMAIN emotion_categories |->
               IF scores(category) # <<>>
                 THEN Mean(scores(category), IntensityOne)
                 ELSE Zero])

\* EmotionAnalytics.get_emotional_balance
get_emotional_balance(rows) ==
  IF rows = <<>> THEN PyDict(<<>>)
  ELSE LET scores(category) ==
             Intensities(SelectSeq(rows, LAMBDA h : h.emotion \in emotion_categories[category]))
       IN PyDict([category \in DOMAIN emotion_categories |->
                    IF scores(category) # <<>>
                      THEN Mean(scores(category), IntensityOne)
                      ELSE Zero])

\* Mutant: get_sentiment_trends rounds the averages to 2 decimals.
get_sentiment_trends_two_decimals(rows, up) ==
  IF rows = <<>> THEN PyList(<<>>)
  ELSE LET dates == sorted(Range(Days(rows)))
           scores(date) == Sentiments(SelectSeq(rows, LAMBDA h : Day(h) = date))
       IN PyList([i \in DOMAIN dates |->
                    [date |-> dates[i],
                     sentiment |-> round(Mean(scores(dates[i]), ONE), 2, up)]])

\* EmotionAnalytics.get_sentiment_trends; no handler stores a NULL sentiment_score
get_sentiment_trends(rows, up) ==
  IF rows = <<>> THEN PyList(<<>>)
  ELSE LET dates == sorted(Range(Days(rows)))
           scores(date) == Sentiments(SelectSeq(rows, LAMBDA h : Day(h) = date))
       IN PyList([i \in DOMAIN dates |->
                    [date |-> dates[i],
                     sentiment |-> round(Mean(scores(dates[i]), ONE), 3, up)]])

\* Mutant: get_summary_stats counts every record as a day of its own.
get_summary_stats_days_are_rows(rows, up) ==
  IF rows = <<>>
    THEN PyDict([total_entries |-> 0, most_common_emotion |-> "N/A",
                 average_sentiment |-> Zero, days_tracked |-> 0])
    ELSE PyDict([total_entries |-> Len(rows),
                 most_common_emotion |-> most_common(Emotions(rows)),
                 average_sentiment |-> round(Mean(Sentiments(rows), ONE), 3, up),
                 days_tracked |-> Len(rows)])

\* EmotionAnalytics.get_summary_stats
get_summary_stats(rows, up) ==
  IF rows = <<>>
    THEN PyDict([total_entries |-> 0, most_common_emotion |-> "N/A",
                 average_sentiment |-> Zero, days_tracked |-> 0])
    ELSE PyDict([total_entries |-> Len(rows),
                 most_common_emotion |-> most_common(Emotions(rows)),
                 average_sentiment |-> round(Mean(Sentiments(rows), ONE), 3, up),
                 days_tracked |-> Cardinality(Range(Days(rows)))])

(***************************************************************************)
(* routes.py: the analytics endpoints.  rows is what the query of the      *)
(* endpoint returned.                                                      *)
(***************************************************************************)
\* Conversation.query.filter(Conversation.user_id == current_user.id,
\*                           Conversation.is_user_message == True,
\*                           Conversation.timestamp >= cutoff_date).all()
MessageQuery(user_id, cutoff) ==
  SelectSeq(conversations,
            LAMBDA c : c.user_id = user_id /\ c.is_user_message /\ c.timestamp >= cutoff)

\* ... with the filter Conversation.emotion.isnot(None)
EmotionQuery(user_id, cutoff) ==
  SelectSeq(MessageQuery(user_id, cutoff), LAMBDA c : c.emotion # Null)

\* ... with the filter Conversation.sentiment_score.isnot(None)
SentimentQuery(user_id, cutoff) ==
  SelectSeq(MessageQuery(user_id, cutoff), LAMBDA c : c.sentiment_score # Null)

\* [e[0] for e in emotions], of rows whose emotion is not NULL
MessageEmotions(rows) == [i \in DOMAIN rows |-> rows[i].emotion[1]]

\* emotion_distribution
emotion_distribution(rows) ==
  IF rows = <<>> THEN PyDict(<<>>)
  ELSE LET emotions == MessageEmotions(rows)
           total == Len(emotions)
       IN PyDict([emotion \in Range(emotions) |->
                    Ratio(Counter(emotions, emotion) * 100, total)])

\* Mutant: emotion_frequency tells only which emotions occur.
emotion_frequency_presence(rows) ==
  LET emotions == MessageEmotions(rows)
  IN PyDict([emotion \in Range(emotions) |-> 1])

\* emotion_frequency
emotion_frequency(rows) ==
  LET emotions == MessageEmotions(rows)
  IN PyDict([emotion \in Range(emotions) |-> Counter(emotions, emotion)])

\* emotion_trends: the series of an emotion has a point for each date on which the
\* emotion occurred, and for no other date
emotion_trends(rows) ==
  LET emotions == MessageEmotions(rows)
      daily_counts(emotion) == SelectSeq(rows, LAMBDA c : c.emotion[1] = emotion)
      dates(emotion) == sorted(Range(Days(daily_counts(emotion))))
  IN PyDict([emotion \in Range(emotions) |->
               [i \in DOMAIN dates(emotion) |->
                  [x |-> dates(emotion)[i],
                   y |-> Counter(Days(daily_counts(emotion)), dates(emotion)[i])]]])

\* emotional_balance: the share of each emotion among the rows
emotional_balance(rows) ==
  IF rows = <<>> THEN PyDict(<<>>)
  ELSE LET emotions == MessageEmotions(rows)
           total == Len(emotions)
       IN PyDict([emotion \in Range(emotions) |->
                    Ratio(Counter(emotions, emotion), total)])

\* sentiment_trends, of rows whose sentiment_score is not NULL
sentiment_trends(rows) ==
  LET dates == sorted(Range(Days(rows)))
      scores(date) ==
        LET of_date == SelectSeq(rows, LAMBDA c : Day(c) = date)
        IN [i \in DOMAIN of_date |-> of_date[i].sentiment_score[1]]
  IN PyList([i \in DOMAIN dates |->
               [x |-> dates[i], y |-> Mean(scores(dates[i]), ONE)]])

\* emotion_values of daily_mood, in tenths
emotion_values ==
  [joy |-> 10, love |-> 8, surprise |-> 6, neutral |-> 0,
   fear |-> -4, sadness |-> -6, anger |-> -8]

\* mood_value of a row, in twentieths: emotion_values.get(emotion.lower(), 0),
\* averaged with the sentiment when that is neither None nor 0.0.  The labels of
\* the model are in lower case.
mood_value(c) ==
  LET value == IF c.emotion[1] \in DOMAIN emotion_values
                 THEN emotion_values[c.emotion[1]] ELSE 0
  IN IF c.sentiment_score # Null /\ c.sentiment_score[1] # 0
       THEN value + c.sentiment_score[1]
       ELSE 2 * value

\* daily_mood: one entry per date, in the order in which the dates first occur in
\* the rows; the entries carry no count and nothing is rounded
daily_mood(rows) ==
  LET dates == keys(Days(rows))
      moods(date) ==
        LET of_date == SelectSeq(rows, LAMBDA c : Day(c) = date)
        IN [i \in DOMAIN of_date |-> mood_value(of_date[i])]
  IN PyList([i \in DOMAIN dates |->
               [date |-> dates[i], value |-> Mean(moods(dates[i]), 2 * ONE)]])

\* Mutant: analytics_summary names 'N/A' when no row has an emotion.
analytics_summary_names_na(rows) ==
  LET with_emotion == SelectSeq(rows, LAMBDA c : c.emotion # Null)
      emotions == MessageEmotions(with_emotion)
      with_sentiment == SelectSeq(rows, LAMBDA c : c.sentiment_score # Null)
      sentiments == [i \in DOMAIN with_sentiment |-> with_sentiment[i].sentiment_score[1]]
  IN PyDict([total_entries |-> Len(rows),
             most_common_emotion |->
               IF emotions # <<>> THEN most_common(emotions) ELSE "N/A",
             average_sentiment |->
               IF sentiments # <<>> THEN Mean(sentiments, ONE) ELSE Zero,
             days_tracked |-> Cardinality(Range(Days(rows)))])

\* analytics_summary
analytics_summary(rows) ==
  LET with_emotion == SelectSeq(rows, LAMBDA c : c.emotion # Null)
      emotions == MessageEmotions(with_emotion)
      with_sentiment == SelectSeq(rows, LAMBDA c : c.sentiment_score # Null)
      sentiments == [i \in DOMAIN with_sentiment |-> with_sentiment[i].sentiment_score[1]]
  IN PyDict([total_entries |-> Len(rows),
             most_common_emotion |->
               IF emotions # <<>> THEN most_common(emotions) ELSE "neutral",
             average_sentiment |->
               IF sentiments # <<>> THEN Mean(sentiments, ONE) ELSE Zero,
             days_tracked |-> Cardinality(Range(Days(rows)))])

\* Conversation.query.filter_by(user_id=current_user.id, is_user_message=True)
UserMessages(user_id) ==
  SelectSeq(conversations, LAMBDA c : c.user_id = user_id /\ c.is_user_message)

\* Conversation.query.filter_by(user_id=current_user.id)
\*   .order_by(Conversation.timestamp.asc()).first(): its timestamp, the rows of the
\* user not being empty
EarliestEntry(user_id) ==
  LET stamps == {conversations[i].timestamp :
                   i \in {j \in DOMAIN conversations : conversations[j].user_id = user_id}}
  IN CHOOSE t \in stamps : \A u \in stamps : t <= u

\* (datetime.utcnow() - earliest_entry.timestamp).days
ElapsedDays(now, timestamp) == (now - timestamp) \div TicksPerDay

\* dashboard: summary_stats.  rows is what the query for the user's own messages
\* returned, of which none has a NULL emotion or sentiment; no cutoff is applied, and
\* days_tracked is the number of days since the user's earliest row, whole days
\* elapsed plus one
dashboard(rows, user_id, now) ==
  LET emotions == MessageEmotions(rows)
      sentiments == [i \in DOMAIN rows |-> rows[i].sentiment_score[1]]
  IN PyDict([total_entries |-> Len(rows),
             most_common_emotion |->
               IF emotions # <<>> THEN most_common(emotions) ELSE "neutral",
             average_sentiment |->
               IF sentiments # <<>> THEN Mean(sentiments, ONE) ELSE Zero,
             days_tracked |->
               IF \E i \in DOMAIN conversations : conversations[i].user_id = user_id
                 THEN ElapsedDays(now, EarliestEntry(user_id)) + 1
                 ELSE 0])

(***************************************************************************)
(* The analytics calls on tables the chat handlers have filled.            *)
(***************************************************************************)
\* the tick at which the analytics are asked for, the last of the second day, and
\* the ticks before it, at which the rows were stored
Present == 2 * TicksPerDay - 1

PastTicks == 0 .. (Present - 1)

\* request.args.get('days', 30, type=int)
DaysAsked == {1, 2}

\* the readings the stored messages were given
TableReadings ==
  { [emotion |-> "joy", confidence |-> ONE, sentiment_score |-> ONE],
    [emotion |-> "love", confidence |-> 5, sentiment_score |-> 0],
    [emotion |-> "sadness", confidence |-> 5, sentiment_score |-> -ONE] }

\* a chat message that was committed: its user, its reading, the clock at its commit
Posts ==
  {p \in [user : Users, reading : TableReadings, now : PastTicks] :
     p.user # 1 => p.reading.emotion = "joy"}

\* up to MaxRows of them, in the order of their commits
PostSeqs ==
  UNION {{s \in [1 .. n -> Posts] : \A i \in 1 .. (n - 1) : s[i].now <= s[i + 1].now} :
           n \in 0 .. MaxRows}

AnyMessage == <<"h", "i">>

\* the tables after send_message committed the message p on the tables st:
\* routes_1750350728745.py adds a row to EmotionHistory, routes.py does not
Committed(st, p, module) ==
  LET r == p.reading
      user_conv ==
        Conversation(Len(st.conversations) + 1, p.user, AnyMessage, TRUE,
                     Some(r.emotion), Some(r.confidence), Some(r.sentiment_score), p.now)
      bot_conv ==
        Conversation(Len(st.conversations) + 2, p.user, BotReply, FALSE,
                     Null, Null, Null, p.now)
      history ==
        EmotionHistory(Len(st.emotion_history) + 1, p.user, r.emotion, r.confidence,
                       r.sentiment_score,
                       calculate_intensity(r.emotion, r.confidence, r.sentiment_score),
                       "chat", Null, p.now)
  IN [conversations |-> st.conversations \o <<user_conv, bot_conv>>,
      emotion_history |->
        IF module = "emotion_detector"
          THEN Append(st.emotion_history, history) ELSE st.emotion_history]

RECURSIVE TablesAfter(_, _)
TablesAfter(posts, module) ==
  IF posts = <<>>
    THEN [conversations |-> <<>>, emotion_history |-> <<>>]
    ELSE Committed(TablesAfter(SubSeq(posts, 1, Len(posts) - 1), module),
                   posts[Len(posts)], module)

AnalyticsInit ==
  /\ Started([model |-> ModelObject(TRUE, TRUE), vectorizer |-> VectorizerObject(TRUE, TRUE),
              label_encoder |-> EncoderObject(TRUE, TRUE, SortedLabels)])
  /\ \E posts \in PostSeqs :
       /\ conversations = TablesAfter(posts, impl).conversations
       /\ emotion_history = TablesAfter(posts, impl).emotion_history
  /\ journal_entries = <<>>
  /\ last = NoLast
  /\ probe = NoProbe
  /\ response = "none"
  /\ request = NoRequest
  /\ previous = NoProbe

\* a call of an analytics operation and what it returned
Asked(op, user, days, now, result) ==
  [op |-> op, user |-> user, days |-> days, now |-> now, result |-> result]

\* the rows of a query without ORDER BY come in any order
Orders(rows) ==
  {[i \in DOMAIN rows |-> rows[p[i]]] :
     p \in {q \in [DOMAIN rows -> DOMAIN rows] :
              \A i, j \in DOMAIN rows : q[i] = q[j] => i = j}}

\* GET /api/analytics/emotion-distribution of routes_1750350728745.py
GetEmotionDistribution ==
  /\ impl = "emotion_detector"
  /\ probe = NoProbe
  /\ \E user \in Users, days \in DaysAsked :
       probe' = Asked("get_emotion_distribution", user, days, Present,
                      get_emotion_distribution(
                        HistoryQuery(user, cutoff_date(Present, days))))
  /\ UNCHANGED <<detector, last, store, response, request, previous>>

\* GET /api/analytics/daily-mood of routes_1750350728745.py
GetDailyMoodData ==
  /\ impl = "emotion_detector"
  /\ probe = NoProbe
  /\ \E user \in Users, days \in DaysAsked, up \in BOOLEAN :
       probe' = Asked("get_daily_mood_data", user, days, Present,
                      get_daily_mood_data(
                        HistoryQuery(user, cutoff_date(Present, days)), up))
  /\ UNCHANGED <<detector, last, store, response, request, previous>>

\* GET /api/analytics/emotion-trends of routes_1750350728745.py
GetEmotionTrends ==
  /\ impl = "emotion_detector"
  /\ probe = NoProbe
  /\ \E user \in Users, days \in DaysAsked :
       probe' = Asked("get_emotion_trends", user, days, Present,
                      get_emotion_trends(HistoryQuery(user, cutoff_date(Present, days))))
  /\ UNCHANGED <<detector, last, store, response, request, previous>>

\* GET /api/analytics/emotion-frequency of routes_1750350728745.py
GetEmotionFrequency ==
  /\ impl = "emotion_detector"
  /\ probe = NoProbe
  /\ \E user \in Users, days \in DaysAsked :
       probe' = Asked("get_emotion_frequency", user, days, Present,
                      get_emotion_frequency(
                        HistoryQuery(user, cutoff_date(Present, days))))
  /\ UNCHANGED <<detector, last, store, response, request, previous>>

\* GET /api/analytics/emotional-balance of routes_1750350728745.py
GetEmotionalBalance ==
  /\ impl = "emotion_detector"
  /\ probe = NoProbe
  /\ \E user \in Users, days \in DaysAsked :
       probe' = Asked("get_emotional_balance", user, days, Present,
                      get_emotional_balance(
                        HistoryQuery(user, cutoff_date(Present, days))))
  /\ UNCHANGED <<detector, last, store, response, request, previous>>

\* GET /api/analytics/sentiment-trends of routes_1750350728745.py; the query also
\* asks for sentiment_score IS NOT NULL, which every stored row satisfies
GetSentimentTrends ==
  /\ impl = "emotion_detector"
  /\ probe = NoProbe
  /\ \E user \in Users, days \in DaysAsked, up \in BOOLEAN :
       probe' = Asked("get_sentiment_trends", user, days, Present,
                      get_sentiment_trends(
                        HistoryQuery(user, cutoff_date(Present, days)), up))
  /\ UNCHANGED <<detector, last, store, response, request, previous>>

\* GET /api/analytics/summary of routes_1750350728745.py
GetSummaryStats ==
  /\ impl = "emotion_detector"
  /\ probe = NoProbe
  /\ \E user \in Users, days \in DaysAsked, up \in BOOLEAN :
       \E rows \in Orders(HistoryQuery(user, cutoff_date(Present, days))) :
         probe' = Asked("get_summary_stats", user, days, Present,
                        get_summary_stats(rows, up))
  /\ UNCHANGED <<detector, last, store, response, request, previous>>

\* GET /api/analytics/emotion-distribution of routes.py
EmotionDistribution ==
  /\ impl = "ml_utils"
  /\ probe = NoProbe
  /\ \E user \in Users, days \in DaysAsked :
       probe' = Asked("emotion_distribution", user, days, Present,
                      emotion_distribution(EmotionQuery(user, cutoff_date(Present, days))))
  /\ UNCHANGED <<detector, last, store, response, request, previous>>

\* GET /api/analytics/emotion-frequency of routes.py
EmotionFrequency ==
  /\ impl = "ml_utils"
  /\ probe = NoProbe
  /\ \E user \in Users, days \in DaysAsked :
       probe' = Asked("emotion_frequency", user, days, Present,
                      emotion_frequency(EmotionQuery(user, cutoff_date(Present, days))))
  /\ UNCHANGED <<detector, last, store, response, request, previous>>

\* GET /api/analytics/emotion-trends of routes.py
EmotionTrends ==
  /\ impl = "ml_utils"
  /\ probe = NoProbe
  /\ \E user \in Users, days \in DaysAsked :
       probe' = Asked("emotion_trends", user, days, Present,
                      emotion_trends(EmotionQuery(user, cutoff_date(Present, days))))
  /\ UNCHANGED <<detector, last, store, response, request, previous>>

\* GET /api/analytics/emotional-balance of routes.py
EmotionalBalance ==
  /\ impl = "ml_utils"
  /\ probe = NoProbe
  /\ \E user \in Users, days \in DaysAsked :
       probe' = Asked("emotional_balance", user, days, Present,
                      emotional_balance(EmotionQuery(user, cutoff_date(Present, days))))
  /\ UNCHANGED <<detector, last, store, response, request, previous>>

\* GET /api/analytics/sentiment-trends of routes.py
SentimentTrends ==
  /\ impl = "ml_utils"
  /\ probe = NoProbe
  /\ \E user \in Users, days \in DaysAsked :
       probe' = Asked("sentiment_trends", user, days, Present,
                      sentiment_trends(SentimentQuery(user, cutoff_date(Present, days))))
  /\ UNCHANGED <<detector, last, store, response, request, previous>>

\* GET /api/analytics/daily-mood of routes.py
DailyMood ==
  /\ impl = "ml_utils"
  /\ probe = NoProbe
  /\ \E user \in Users, days \in DaysAsked :
       \E rows \in Orders(EmotionQuery(user, cutoff_date(Present, days))) :
         probe' = Asked("daily_mood", user, days, Present, daily_mood(rows))
  /\ UNCHANGED <<detector, last, store, response, request, previous>>

\* GET /api/analytics/summary of routes.py
AnalyticsSummary ==
  /\ impl = "ml_utils"
  /\ probe = NoProbe
  /\ \E user \in Users, days \in DaysAsked :
       \E rows \in Orders(MessageQuery(user, cutoff_date(Present, days))) :
         probe' = Asked("analytics_summary", user, days, Present, analytics_summary(rows))
  /\ UNCHANGED <<detector, last, store, response, request, previous>>

\* the days asked of the dashboard, which takes no `days`: all of them
AllDays == "all"

\* GET /dashboard of routes.py: its summary_stats
Dashboard ==
  /\ impl = "ml_utils"
  /\ probe = NoProbe
  /\ \E user \in Users :
       \E rows \in Orders(UserMessages(user)) :
         probe' = Asked("dashboard", user, AllDays, Present,
                        dashboard(rows, user, Present))
  /\ UNCHANGED <<detector, last, store, response, request, previous>>

\* what the endpoint op answers the user who asks for `days` days at the time now: its
\* function of the rows of its query, in whatever order the query returns them and
\* however the rounding errors fall
Endpoint(op, user, days, now) ==
  LET cutoff == cutoff_date(now, days)
  IN CASE op = "get_emotion_distribution" ->
            {get_emotion_distribution(HistoryQuery(user, cutoff))}
       [] op = "get_daily_mood_data" ->
            {get_daily_mood_data(HistoryQuery(user, cutoff), up) : up \in BOOLEAN}
       [] op = "get_emotion_trends" -> {get_emotion_trends(HistoryQuery(user, cutoff))}
       [] op = "get_emotion_frequency" ->
            {get_emotion_frequency(HistoryQuery(user, cutoff))}
       [] op = "get_emotional_balance" ->
            {get_emotional_balance(HistoryQuery(user, cutoff))}
       [] op = "get_sentiment_trends" ->
            {get_sentiment_trends(HistoryQuery(user, cutoff), up) : up \in BOOLEAN}
       [] op = "get_summary_stats" ->
            {get_summary_stats(rows, up) :
               rows \in Orders(HistoryQuery(user, cutoff)), up \in BOOLEAN}
       [] op = "emotion_distribution" -> {emotion_distribution(EmotionQuery(user, cutoff))}
       [] op = "emotion_frequency" -> {emotion_frequency(EmotionQuery(user, cutoff))}
       [] op = "emotion_trends" -> {emotion_trends(EmotionQuery(user, cutoff))}
       [] op = "emotional_balance" -> {emotional_balance(EmotionQuery(user, cutoff))}
       [] op = "sentiment_trends" -> {sentiment_trends(SentimentQuery(user, cutoff))}
       [] op = "daily_mood" ->
            {daily_mood(rows) : rows \in Orders(EmotionQuery(user, cutoff))}
       [] op = "analytics_summary" ->
            {analytics_summary(rows) : rows \in Orders(MessageQuery(user, cutoff))}
       [] op = "dashboard" ->
            {dashboard(rows, user, now) : rows \in Orders(UserMessages(user))}

\* the client sends the request it was just answered once more: the same endpoint,
\* user and days, at the same reading of the clock, the tables as they were
Repeat ==
  /\ probe # NoProbe
  /\ previous = NoProbe
  /\ previous' = probe
  /\ \E result \in Endpoint(probe.op, probe.user, probe.days, probe.now) :
       probe' = Asked(probe.op, probe.user, probe.days, probe.now, result)
  /\ UNCHANGED <<detector, last, store, response, request>>

\* the response leaves the process
AnalyticsReturn ==
  /\ probe # NoProbe
  /\ probe' = NoProbe
  /\ previous' = NoProbe
  /\ UNCHANGED <<detector, last, store, response, request>>

AnalyticsNext ==
  \/ GetEmotionDistribution \/ GetDailyMoodData \/ GetEmotionTrends
  \/ GetEmotionFrequency \/ GetEmotionalBalance \/ GetSentimentTrends
  \/ GetSummaryStats
  \/ EmotionDistribution \/ EmotionFrequency \/ EmotionTrends \/ EmotionalBalance
  \/ SentimentTrends \/ DailyMood \/ AnalyticsSummary \/ Dashboard
  \/ AnalyticsReturn

AnalyticsSpec == AnalyticsInit /\ [][AnalyticsNext]_vars

\* the analytics calls, each of which the client may repeat
RepeatNext == AnalyticsNext \/ Repeat

RepeatSpec == AnalyticsInit /\ [][RepeatNext]_vars

(***************************************************************************)
(* The requests of one process, served one at a time: the chat and journal *)
(* handlers and the analytics endpoints on the tables they fill.           *)
(***************************************************************************)
\* a chat or journal request is handled, or its response leaves
Ingest == probe = NoProbe /\ AppNext

\* an analytics request is answered, or its response leaves
Analyse == response = "none" /\ AnalyticsNext

StoreNext == Ingest \/ Analyse

\* what an earlier run of the application left in the tables: nothing or one chat
\* message, committed before the clock of this process started
EarlierPosts ==
  {p \in [user : Users, reading : TableReadings, now : {-1}] :
     p.user # 1 => p.reading.emotion = "joy"}

EarlierPostSeqs == {<<>>} \cup {<<p>> : p \in EarlierPosts}

\* the application starts without artifacts, on the tables of the earlier run
StoreInit ==
  /\ Started([model |-> NoModel, vectorizer |-> NoVectorizer, label_encoder |-> NoEncoder])
  /\ \E posts \in EarlierPostSeqs :
       /\ conversations = TablesAfter(posts, impl).conversations
       /\ emotion_history = TablesAfter(posts, impl).emotion_history
  /\ journal_entries = <<>>
  /\ last = NoLast
  /\ probe = NoProbe
  /\ response = "none"
  /\ request = NoRequest
  /\ previous = NoProbe

StoreSpec == StoreInit /\ [][StoreNext]_vars

(***************************************************************************)
(* Properties of detection.                                                *)
(***************************************************************************)
Returned == last # NoLast

Blank(t) == Strip(t) = <<>>

Stages == {"transform", "predict", "predict_proba", "inverse_transform"}

\* the stages of trained inference that raised in the call that returned
Failed == Called(last.errors) \cap Stages

Invoked == Called(last.calls) \cap Stages # {}

\* what the keyword classifier of the detector's module gives for the text
KeywordPick(t) == IF impl = "ml_utils" THEN MlFallbackPicks[t] ELSE FallbackPicks[t]

IsKeywordResult ==
  /\ "keywords" \in Called(last.calls)
  /\ last.emotion = KeywordPick(last.text).emotion
  /\ last.confidence = KeywordPick(last.text).confidence

\* C1: whatever the text and the outcome of loading, the emotion a detection
\* returns is one of joy, sadness, anger, fear, surprise, love, neutral.
C1_EmotionInClosedSet == Returned => last.emotion \in EmotionLabel

\* C2: for the empty text and every whitespace-only text detection returns neutral,
\* confidence 0.5, sentiment 0.0 and intensity 0.5, loaded classifier or not, and
\* no stage of the trained classifier is invoked.
C2_BlankTextIsNeutral ==
  (Returned /\ Blank(last.text)) =>
    /\ last.emotion = "neutral"
    /\ last.confidence = 5
    /\ last.sentiment_score = 0
    /\ impl = "emotion_detector" => 2 * last.intensity = IntensityOne
    /\ ~Invoked

C2_Witness ==
  /\ Returned
  /\ last.text = <<" ", " ">>
  /\ impl = "emotion_detector"
  /\ model.present /\ model.predict /\ model.predict_proba
  /\ vectorizer.present /\ vectorizer.transform
  /\ last.intensity = ONE * ONE

\* C3 as stated: if any stage of trained inference raises (vectorizing, predicting,
\* computing probabilities, decoding the label), the call does not raise and returns
\* exactly the keyword classifier's (emotion, confidence) for the same text.
C3_AnyFailureGivesKeywordResult ==
  (Returned /\ Failed # {}) => (~last.raised /\ IsKeywordResult)

\* C3 as amended: a failure of vectorizing, predicting or computing probabilities
\* gives the keyword classifier's (emotion, confidence) and no call raises; a failure
\* of the label decoder alone does so in ml_utils.py, while in emotion_detector.py
\* the call keeps the model's confidence and takes the label from the label table
\* (or the predicted value as a string) without running the keyword classifier.
C3_FailureDegradesTheCall ==
  Returned =>
    /\ ~last.raised
    /\ Failed \cap {"transform", "predict", "predict_proba"} # {} => IsKeywordResult
    /\ ("inverse_transform" \in Failed /\ impl = "ml_utils") => IsKeywordResult
    /\ ("inverse_transform" \in Failed /\ impl = "emotion_detector") =>
         /\ "keywords" \notin Called(last.calls)
         /\ last.emotion = TableLabel(emotion_labels, last.answers.predict.v)
         /\ last.confidence = last.answers.predict_proba.v

C3_Witness ==
  /\ Returned
  /\ impl = "emotion_detector"
  /\ "predict_proba" \in Failed
  /\ last.emotion = "joy"
  /\ last.confidence = 7

\* C4: a call whose inference raised changes no field of the detector, and from a
\* detector whose classifier is loaded every call on a non-blank text whose
\* inference does not raise returns the trained result, not the keyword one.
C4_FailureLeavesDetectorLoaded ==
  [][(last = NoLast /\ last' # NoLast) =>
       /\ UNCHANGED detector
       /\ ( /\ model.present /\ vectorizer.present
            /\ impl = "ml_utils" => is_loaded
            /\ ~Blank(last'.text)
            /\ Called(last'.errors) \cap Stages = {} ) =>
              /\ "transform" \in Called(last'.calls)
              /\ "keywords" \notin Called(last'.calls)
              /\ last'.confidence = last'.answers.predict_proba.v]_vars

C4_Witness ==
  /\ Returned
  /\ impl = "emotion_detector"
  /\ "predict" \in Failed
  /\ model.present /\ model.predict /\ vectorizer.present /\ label_encoder.present

\* the model or the vectorizer is missing, unreadable or lacks a method inference calls
Unusable ==
  \/ ~model.present \/ ~model.predict \/ ~model.predict_proba
  \/ ~vectorizer.present \/ ~vectorizer.transform

\* C5: construction never raises, whatever files are missing, unreadable or lack
\* methods, and with an unusable model or vectorizer every detection of a non-blank
\* text is the keyword classifier's.
C5_ConstructionNeverRaises ==
  /\ impl # "crashed"
  /\ (Returned /\ Unusable /\ ~Blank(last.text)) => (~last.raised /\ IsKeywordResult)

C5_Witness ==
  /\ Returned
  /\ impl = "ml_utils"
  /\ is_loaded
  /\ ~vectorizer.transform
  /\ last.emotion = "sadness"

C7_IntensityInUnitInterval ==
  (probe.op = "calculate_intensity" /\ probe.done) =>
    (0 <= probe.result /\ probe.result <= IntensityOne)

\* the clamp acts: joy at confidence 1.0 and sentiment 1.0 would be 1.5
C7_Witness ==
  /\ probe.op = "calculate_intensity" /\ probe.done
  /\ probe.emotion = "joy" /\ probe.confidence = ONE /\ probe.sentiment_score = ONE
  /\ probe.result = IntensityOne

\* a real number x/IntensityOne clamped to [0,1]
Clamped(x) == IF x < 0 THEN 0 ELSE IF x > IntensityOne THEN IntensityOne ELSE x

\* C8: intensity is confidence*(1 + 0.5*sentiment) for joy and love,
\* confidence*(1 - 0.5*sentiment) for sadness, anger and fear, and confidence for
\* every other label, clamped to [0,1].  (In units of 1/IntensityOne,
\* c/ONE * (1 + (s/ONE)/2) is c * (2*ONE + s).)
C8_IntensityFormula ==
  (probe.op = "calculate_intensity" /\ probe.done) =>
    LET c == probe.confidence
        s == probe.sentiment_score
    IN probe.result =
         CASE probe.emotion \in {"joy", "love"} -> Clamped(c * (2 * ONE + s))
           [] probe.emotion \in {"sadness", "anger", "fear"} -> Clamped(c * (2 * ONE - s))
           [] OTHER -> Clamped(c * 2 * ONE)

C8_Witness ==
  /\ probe.op = "calculate_intensity" /\ probe.done
  /\ probe.emotion = "surprise" /\ probe.confidence = 5 /\ probe.sentiment_score = ONE
  /\ probe.result = ONE * ONE

(***************************************************************************)
(* Properties of the readings the handlers take and store (AppSpec).       *)
(***************************************************************************)
InRange(confidence, sentiment_score) ==
  confidence \in 0..ONE /\ sentiment_score \in (-ONE)..ONE

\* C9: every reading a handler's detection returned, and every emotion-history
\* record the chat and journal handlers wrote, has its confidence and its intensity
\* in [0,1] and its sentiment in [-1,1]; so has every reading stored in a
\* conversation or a journal entry.
C9_ReadingsInRange ==
  /\ Returned =>
       /\ InRange(last.confidence, last.sentiment_score)
       /\ impl = "emotion_detector" => last.intensity \in 0..IntensityOne
  /\ \A i \in DOMAIN emotion_history :
       /\ InRange(emotion_history[i].confidence, emotion_history[i].sentiment_score)
       /\ emotion_history[i].intensity \in 0..IntensityOne
  /\ \A i \in DOMAIN conversations :
       conversations[i].is_user_message =>
         InRange(conversations[i].emotion_confidence[1],
                 conversations[i].sentiment_score[1])
  /\ \A i \in DOMAIN journal_entries :
       InRange(journal_entries[i].emotion_confidence[1],
               journal_entries[i].sentiment_score[1])

\* a chat record of the trained classifier, its intensity cut at 1
C9_Witness ==
  /\ impl = "emotion_detector"
  /\ Len(emotion_history) = 1
  /\ emotion_history[1].source_type = "chat"
  /\ emotion_history[1].emotion = "anger"
  /\ emotion_history[1].confidence = ONE
  /\ emotion_history[1].sentiment_score = -ONE
  /\ emotion_history[1].intensity = IntensityOne
  /\ "inverse_transform" \in Called(last.calls)

(***************************************************************************)
(* Properties of the keyword classifiers (SpecKeyword).                    *)
(***************************************************************************)
\* no keyword of the table occurs in the text, case ignored
NoKeywordIn(table, t) ==
  \A i \in DOMAIN table : \A k \in DOMAIN table[i].keywords :
     ~Contains(table[i].keywords[k], Lower(t))

ProbedTable ==
  IF probe.op = "_fallback_emotion_detection" THEN ml_emotion_keywords ELSE emotion_keywords

KeywordProbed == probe.op \in {"_fallback_detection", "_fallback_emotion_detection"}

\* C10: the keyword classifier returns (neutral, 0.5) for every non-empty text in
\* which no keyword of its table occurs (the match ignores case).
C10_NoKeywordIsNeutral ==
  (KeywordProbed /\ probe.done /\ probe.text # <<>>
     /\ NoKeywordIn(ProbedTable, probe.text)) =>
    (probe.emotion = "neutral" /\ probe.confidence = 5)

C10_Witness ==
  /\ probe.op = "_fallback_detection" /\ probe.done
  /\ probe.text = <<"u", "n", " ">>
  /\ probe.emotion = "neutral" /\ probe.confidence = 5

\* the number of distinct keywords of the table's i-th emotion that occur in the
\* lower-cased text
Hits(table, i, t) ==
  Cardinality({kw \in {table[i].keywords[k] : k \in DOMAIN table[i].keywords} :
                 Contains(kw, Lower(t))})

\* the position of the probed classifier's emotion in its table, 0 if it is not there
ProbedIndex ==
  IF \E i \in DOMAIN ProbedTable : ProbedTable[i].emotion = probe.emotion
    THEN CHOOSE i \in DOMAIN ProbedTable : ProbedTable[i].emotion = probe.emotion
    ELSE 0

\* C11: for a text in which some keyword occurs the keyword classifier returns an
\* emotion whose count of distinct keywords occurring in the lower-cased text is
\* maximal, and of the emotions with that count the one declared first in the table.
C11_FirstMaximalEmotionWins ==
  (KeywordProbed /\ probe.done /\ ~Blank(probe.text)
     /\ ~NoKeywordIn(ProbedTable, probe.text)) =>
    /\ ProbedIndex # 0
    /\ \A j \in DOMAIN ProbedTable :
         /\ Hits(ProbedTable, j, probe.text) <= Hits(ProbedTable, ProbedIndex, probe.text)
         /\ Hits(ProbedTable, j, probe.text) = Hits(ProbedTable, ProbedIndex, probe.text)
              => ProbedIndex <= j

\* "unhappy" holds the joy keyword happy and the sadness keyword unhappy: joy wins
C11_Witness ==
  /\ probe.op = "_fallback_detection" /\ probe.done
  /\ probe.text = <<"u", "n", "h", "a", "p", "p", "y">>
  /\ probe.emotion = "joy" /\ probe.confidence = 5

\* the largest count of distinct keywords any emotion of the table has in the text
TopHits(table, t) ==
  LET n == [i \in DOMAIN table |-> Hits(table, i, t)]
  IN n[CHOOSE i \in DOMAIN table : \A j \in DOMAIN table : n[j] <= n[i]]

TopHitsOfTexts ==
  [op \in {"_fallback_detection", "_fallback_emotion_detection"} |->
     [t \in Texts |->
        TopHits(IF op = "_fallback_detection" THEN emotion_keywords
                                              ELSE ml_emotion_keywords, t)]]

\* the confidence the probed classifier gives the text t
ProbedConfidenceOf(t) ==
  IF probe.op = "_fallback_emotion_detection"
    THEN MlFallbackPicks[t].confidence ELSE FallbackPicks[t].confidence

\* the cap of the probed classifier, in tenths: 0.9 in ml_utils.py, 0.8 otherwise
ProbedCap == IF probe.op = "_fallback_emotion_detection" THEN 9 ELSE 8

ReadingWithPolarity(p) ==
  LET a == [last.answers EXCEPT !.polarity = Ok(p)]
  IN IF impl = "ml_utils" THEN MlReading(last.text, a) ELSE Reading(last.text, a)

\* C13: when the polarity analyzer raises, the sentiment score is 0.0, the detection
\* call does not raise, and the emotion and confidence it returns are those the
\* classifier gives when the analyzer answers.
C13_SentimentFailureGivesZero ==
  (Returned /\ "TextBlob" \in Called(last.errors)) =>
    /\ ~last.raised
    /\ last.sentiment_score = 0
    /\ \A p \in Polarities :
         \E r \in {ReadingWithPolarity(p)} :
           last.emotion = r.emotion /\ last.confidence = r.confidence
    /\ "keywords" \in Called(last.calls) => IsKeywordResult
    /\ ("keywords" \notin Called(last.calls) /\ Failed = {}) =>
         last.confidence = last.answers.predict_proba.v

\* the trained classifier answers with probability 1.0 and the analyzer raises
C13_Witness ==
  /\ Returned
  /\ impl = "emotion_detector"
  /\ "TextBlob" \in Called(last.errors)
  /\ Invoked /\ Failed = {}
  /\ last.confidence = ONE
  /\ last.sentiment_score = 0

\* a step of a request handler: it leaves the request it served
Handled == request' # NoRequest

\* the step appends to EmotionHistory exactly one row, which carries the reading of
\* the submitted text, the user of the request and the source type of its endpoint
OneHistoryRowStored ==
  /\ Len(emotion_history') = Len(emotion_history) + 1
  /\ SubSeq(emotion_history', 1, Len(emotion_history)) = emotion_history
  /\ LET h == emotion_history'[Len(emotion_history')]
     IN /\ h.user_id = request'.user
        /\ last'.text = Strip(request'.text)
        /\ h.emotion = last'.emotion
        /\ h.confidence = last'.confidence
        /\ h.sentiment_score = last'.sentiment_score
        /\ h.intensity = last'.intensity
        /\ h.source_type = IF request'.route = "send_message" THEN "chat" ELSE "journal"

AnalyticsOps ==
  {"get_emotion_distribution", "get_daily_mood_data", "get_emotion_trends",
   "get_emotion_frequency", "get_emotional_balance", "get_sentiment_trends",
   "get_summary_stats"}

MlAnalyticsOps ==
  {"emotion_distribution", "daily_mood", "emotion_trends", "emotion_frequency",
   "emotional_balance", "sentiment_trends", "analytics_summary"}

\* an analytics operation has returned
Answered == probe.op \in AnalyticsOps \cup MlAnalyticsOps

\* the records of the user asked for that are no older than `days` days: the rows of
\* EmotionHistory for analytics_1750350728748.py, the user's own messages in
\* Conversation for routes.py
InWindow(row) ==
  /\ row.user_id = probe.user
  /\ row.timestamp >= probe.now - probe.days * TicksPerDay

Filtered ==
  IF probe.op \in AnalyticsOps
    THEN SelectSeq(emotion_history, InWindow)
    ELSE SelectSeq(conversations, LAMBDA c : c.is_user_message /\ InWindow(c))

\* what the operation op returns on the records rows, however their order and the
\* rounding errors fall
ResultsOn(op, rows) ==
  CASE op = "get_emotion_distribution" -> {get_emotion_distribution(rows)}
    [] op = "get_daily_mood_data" -> {get_daily_mood_data(rows, up) : up \in BOOLEAN}
    [] op = "get_emotion_trends" -> {get_emotion_trends(rows)}
    [] op = "get_emotion_frequency" -> {get_emotion_frequency(rows)}
    [] op = "get_emotional_balance" -> {get_emotional_balance(rows)}
    [] op = "get_sentiment_trends" -> {get_sentiment_trends(rows, up) : up \in BOOLEAN}
    [] op = "get_summary_stats" ->
         {get_summary_stats(o, up) : o \in Orders(rows), up \in BOOLEAN}
    [] op = "emotion_distribution" -> {emotion_distribution(rows)}
    [] op = "daily_mood" -> {daily_mood(o) : o \in Orders(rows)}
    [] op = "emotion_trends" -> {emotion_trends(rows)}
    [] op = "emotion_frequency" -> {emotion_frequency(rows)}
    [] op = "emotional_balance" -> {emotional_balance(rows)}
    [] op = "sentiment_trends" -> {sentiment_trends(rows)}
    [] op = "analytics_summary" -> {analytics_summary(o) : o \in Orders(rows)}

\* C15: every analytics operation asked for (user, days) returns what it computes
\* from exactly the user's records stamped at or after now - days: a record stamped
\* exactly at the cutoff counts, other users' records and older ones do not.
C15_WindowIsUserAndCutoff ==
  Answered => probe.result \in ResultsOn(probe.op, Filtered)

\* asked for one day, the frequency counts the love stored exactly one day ago and
\* neither the sadness stored before it nor the other user's joy
C15_Witness ==
  /\ probe.op = "get_emotion_frequency"
  /\ probe.user = 1
  /\ probe.days = 1
  /\ Len(emotion_history) = 3
  /\ emotion_history[1].user_id = 1
  /\ emotion_history[1].timestamp = probe.now - TicksPerDay - 1
  /\ emotion_history[1].emotion = "sadness"
  /\ emotion_history[2].user_id = 1
  /\ emotion_history[2].timestamp = probe.now - TicksPerDay
  /\ emotion_history[2].emotion = "love"
  /\ emotion_history[3].user_id = 2
  /\ probe.result = PyDict([e \in {"love"} |-> 1])

\* the operations that return a list; the others return a mapping
ListOps == {"get_daily_mood_data", "get_sentiment_trends", "daily_mood", "sentiment_trends"}

SummaryOps == {"get_summary_stats", "analytics_summary"}

\* C16: asked for a user who has no record inside the window, every analytics
\* operation returns its empty default and does not raise: the empty list for the
\* operations that return a list, a summary of 0 entries, average sentiment 0 and 0
\* days for the summary, the empty mapping for the others.
C16_EmptyWindowGivesDefaults ==
  (Answered /\ Filtered = <<>>) =>
    IF probe.op \in ListOps THEN probe.result = PyList(<<>>)
    ELSE IF probe.op \in SummaryOps
      THEN /\ probe.result.type = "dict"
           /\ probe.result.value.total_entries = 0
           /\ probe.result.value.average_sentiment = Zero
           /\ probe.result.value.days_tracked = 0
      ELSE probe.result = PyDict(<<>>)

\* the tables hold rows, none of them of the user asked for inside the window
C16_Witness ==
  /\ probe.op = "get_emotional_balance"
  /\ Filtered = <<>>
  /\ Len(emotion_history) = MaxRows
  /\ \E i \in DOMAIN emotion_history : emotion_history[i].user_id = probe.user
  /\ probe.result = PyDict(<<>>)

\* the summary of no record, naming `emotion` as the most common one
EmptySummary(emotion) ==
  PyDict([total_entries |-> 0, most_common_emotion |-> emotion,
          average_sentiment |-> Zero, days_tracked |-> 0])

\* C17 as stated: on an empty filtered set the summary is 0 entries, most common
\* emotion "N/A", average sentiment 0 and 0 days tracked.
C17_EmptySummaryNamesNA ==
  (probe.op \in SummaryOps /\ Filtered = <<>>) => probe.result = EmptySummary("N/A")

\* C17 as amended: on an empty filtered set the summary is 0 entries, average
\* sentiment 0 and 0 days tracked; the most common emotion is "N/A" from
\* get_summary_stats of analytics_1750350728748.py and "neutral" from
\* analytics_summary of routes.py.
C17_EmptySummaryPerModule ==
  (probe.op \in SummaryOps /\ Filtered = <<>>) =>
    probe.result =
      EmptySummary(IF probe.op = "get_summary_stats" THEN "N/A" ELSE "neutral")

\* the summary of a user whose only records are older than the window
C17_Witness ==
  /\ probe.op = "get_summary_stats"
  /\ probe.days = 1
  /\ \E i \in DOMAIN emotion_history : emotion_history[i].user_id = probe.user
  /\ Filtered = <<>>
  /\ probe.result.value.most_common_emotion = "N/A"
  /\ probe.result.value.total_entries = 0

\* the emotion of a record: a column of EmotionHistory, a nullable one of Conversation
EmotionOf(row) == IF probe.op \in AnalyticsOps THEN row.emotion ELSE row.emotion[1]

FilteredEmotions == {EmotionOf(Filtered[i]) : i \in DOMAIN Filtered}

FilteredDates == {Day(Filtered[i]) : i \in DOMAIN Filtered}

\* the number of filtered records of the emotion on the date
Occurrences(emotion, date) ==
  Cardinality({i \in DOMAIN Filtered :
                 EmotionOf(Filtered[i]) = emotion /\ Day(Filtered[i]) = date})

TrendOps == {"get_emotion_trends", "emotion_trends"}

\* the result has a series for each emotion of the filtered records and for no
\* other; each series ascends by date and each of its points counts the records of
\* the emotion on its date
TrendSeriesCount ==
  /\ probe.result.type = "dict"
  /\ DOMAIN probe.result.value = FilteredEmotions
  /\ \A e \in FilteredEmotions :
       LET series == probe.result.value[e]
       IN /\ \A i \in DOMAIN series : series[i].y = Occurrences(e, series[i].x)
          /\ \A i, j \in DOMAIN series : i < j => series[i].x < series[j].x

\* the dates of the points of the series of emotion e
SeriesDates(e) == {probe.result.value[e][i].x : i \in DOMAIN probe.result.value[e]}

\* C18 as stated: emotionTrends returns, for each emotion with at least one record, a
\* series ascending by date with a point exactly for the dates on which the emotion
\* occurred; a date without the emotion has no point, rather than a point of count 0.
C18_TrendsOmitAbsentDates ==
  probe.op \in TrendOps =>
    /\ TrendSeriesCount
    /\ \A e \in FilteredEmotions :
         SeriesDates(e) = {d \in FilteredDates : Occurrences(e, d) > 0}

\* C18 as amended: the series are as stated from emotion_trends of routes.py; from
\* get_emotion_trends of analytics_1750350728748.py every series has a point for
\* every date that has a filtered record of any emotion, with count 0 on the dates
\* on which its own emotion did not occur.
C18_TrendsPerModule ==
  probe.op \in TrendOps =>
    /\ TrendSeriesCount
    /\ \A e \in FilteredEmotions :
         SeriesDates(e) =
           IF probe.op = "emotion_trends"
             THEN {d \in FilteredDates : Occurrences(e, d) > 0}
             ELSE FilteredDates

\* joy on the first day only, sadness on the second only: each series has a point of
\* count 0
C18_Witness ==
  /\ probe.op = "get_emotion_trends"
  /\ probe.result =
       PyDict([e \in {"joy", "sadness"} |->
                 IF e = "joy" THEN <<[x |-> 0, y |-> 1], [x |-> 1, y |-> 0]>>
                              ELSE <<[x |-> 0, y |-> 0], [x |-> 1, y |-> 2]>>])

\* the filtered records whose emotion is one of `emotions`
RecordsOf(emotions) == {i \in DOMAIN Filtered : EmotionOf(Filtered[i]) \in emotions}

\* the sum of the intensities of the filtered records I, in units of 1/IntensityOne
RECURSIVE IntensitySum(_)
IntensitySum(I) ==
  IF I = {} THEN 0
  ELSE LET i == CHOOSE i \in I : TRUE
       IN Filtered[i].intensity + IntensitySum(I \ {i})

\* the float x is the quotient num / den
IsQuotient(x, num, den) == x.num * den = num * x.den

\* the result gives each of Positive (joy, love, surprise), Negative (sadness, anger,
\* fear) and Neutral (neutral) the mean intensity of the filtered records of the
\* category, 0 when there is none
BalanceByCategory ==
  /\ probe.result.type = "dict"
  /\ DOMAIN probe.result.value = {"Positive", "Negative", "Neutral"}
  /\ \A c \in {"Positive", "Negative", "Neutral"} :
       LET I == RecordsOf(CASE c = "Positive" -> {"joy", "love", "surprise"}
                            [] c = "Negative" -> {"sadness", "anger", "fear"}
                            [] c = "Neutral" -> {"neutral"})
       IN IF I = {} THEN probe.result.value[c] = Zero
          ELSE IsQuotient(probe.result.value[c], IntensitySum(I),
                          IntensityOne * Cardinality(I))

BalanceOps == {"get_emotional_balance", "emotional_balance"}

\* C19 as stated: on a filtered set that is not empty, emotionalBalance returns for
\* the three fixed categories the arithmetic mean of the intensities of the filtered
\* records of the category, and 0 for a category with none.
C19_BalanceIsMeanByCategory ==
  (probe.op \in BalanceOps /\ Filtered # <<>>) => BalanceByCategory

\* C19 as amended: get_emotional_balance of analytics_1750350728748.py returns the
\* three category means as stated; emotional_balance of routes.py returns, for each
\* emotion of the filtered records, its share of them, count / total.
C19_BalancePerModule ==
  (probe.op \in BalanceOps /\ Filtered # <<>>) =>
    IF probe.op = "get_emotional_balance"
      THEN BalanceByCategory
      ELSE /\ probe.result.type = "dict"
           /\ DOMAIN probe.result.value = FilteredEmotions
           /\ \A e \in FilteredEmotions :
                IsQuotient(probe.result.value[e], Cardinality(RecordsOf({e})),
                           Len(Filtered))

\* joy of intensity 1.0 and love of 0.5 average 0.75, sadness is 0.75, nothing neutral
C19_Witness ==
  /\ probe.op = "get_emotional_balance"
  /\ Len(Filtered) = 3
  /\ probe.result =
       PyDict([Positive |-> Ratio(3, 4), Negative |-> Ratio(3, 4), Neutral |-> Zero])

\* the filtered records of the date
RecordsOn(date) == {i \in DOMAIN Filtered : Day(Filtered[i]) = date}

\* the float x is a multiple of 10^-ndigits within half of 10^-ndigits of num / den
IsRounded(x, ndigits, num, den) ==
  /\ (x.num * Pow10(ndigits)) % x.den = 0
  /\ 2 * Pow10(ndigits) * Abs(x.num * den - num * x.den) <= x.den * den

\* the result lists one entry per date of the filtered records, ascending by date,
\* with the number of the records of the date and the mean of their intensities
\* rounded to 2 decimals
DailyMoodAsStated ==
  LET entries == probe.result.value
  IN /\ probe.result.type = "list"
     /\ \A i \in DOMAIN entries : DOMAIN entries[i] = {"date", "intensity", "count"}
     /\ {entries[i].date : i \in DOMAIN entries} = FilteredDates
     /\ \A i, j \in DOMAIN entries : i < j => entries[i].date < entries[j].date
     /\ \A i \in DOMAIN entries :
          /\ entries[i].count = Cardinality(RecordsOn(entries[i].date))
          /\ IsRounded(entries[i].intensity, 2, IntensitySum(RecordsOn(entries[i].date)),
                       IntensityOne * Cardinality(RecordsOn(entries[i].date)))
     /\ sum([i \in DOMAIN entries |-> entries[i].count]) = Len(Filtered)

\* the sum of the mood values of the filtered records I, in twentieths
RECURSIVE MoodSum(_)
MoodSum(I) ==
  IF I = {} THEN 0
  ELSE LET i == CHOOSE i \in I : TRUE
       IN mood_value(Filtered[i]) + MoodSum(I \ {i})

DailyMoodOps == {"get_daily_mood_data", "daily_mood"}

\* C20 as stated: dailyMood returns exactly one entry per distinct calendar date that
\* has a filtered record, sorted ascending by date; the count of an entry is the
\* number of the records of its date, so that the counts sum to the number of
\* filtered records, and its average intensity is the mean of their intensities
\* rounded to 2 decimal places.
C20_DailyMoodCountsAndMeans ==
  probe.op \in DailyMoodOps => DailyMoodAsStated

\* C20 as amended: get_daily_mood_data of analytics_1750350728748.py returns the
\* entries as stated.  daily_mood of routes.py returns exactly one entry per
\* distinct date that has a filtered record, in no particular order; an entry has
\* no count, and its value is the unrounded mean of the mood values of the records
\* of its date.
C20_DailyMoodPerModule ==
  probe.op \in DailyMoodOps =>
    IF probe.op = "get_daily_mood_data"
      THEN DailyMoodAsStated
      ELSE LET entries == probe.result.value
           IN /\ probe.result.type = "list"
              /\ \A i \in DOMAIN entries : DOMAIN entries[i] = {"date", "value"}
              /\ {entries[i].date : i \in DOMAIN entries} = FilteredDates
              /\ Len(entries) = Cardinality(FilteredDates)
              /\ \A i \in DOMAIN entries :
                   IsQuotient(entries[i].value, MoodSum(RecordsOn(entries[i].date)),
                              2 * ONE * Cardinality(RecordsOn(entries[i].date)))

\* intensities 1.0 and 0.75 on the first day average 0.875, rounded to 0.88; one
\* record of intensity 0.5 on the second day
C20_Witness ==
  /\ probe.op = "get_daily_mood_data"
  /\ Len(Filtered) = 3
  /\ probe.result =
       PyList(<<[date |-> 0, intensity |-> Ratio(88, 100), count |-> 2],
                [date |-> 1, intensity |-> Ratio(1, 2), count |-> 1]>>)

(***************************************************************************)
(* Properties of the summary, the distribution and the frequency.          *)
(***************************************************************************)
\* the operations that return summary statistics
StatsOps == SummaryOps \cup {"dashboard"}

\* the records a summary is about: the filtered records and, for the dashboard,
\* which applies no window, all the messages of the user
Summarised ==
  IF probe.op = "dashboard"
    THEN SelectSeq(conversations, LAMBDA c : c.is_user_message /\ c.user_id = probe.user)
    ELSE Filtered

\* the sentiment of a record, in tenths; no stored record has a NULL sentiment
SentimentOf(row) ==
  IF probe.op \in AnalyticsOps THEN row.sentiment_score ELSE row.sentiment_score[1]

\* the number of the records of the emotion
RecordCount(emotion) ==
  Cardinality({i \in DOMAIN Summarised : EmotionOf(Summarised[i]) = emotion})

SummarisedEmotions == {EmotionOf(Summarised[i]) : i \in DOMAIN Summarised}

\* the emotions of the highest record count
Modes ==
  {e \in SummarisedEmotions : \A f \in SummarisedEmotions : RecordCount(f) <= RecordCount(e)}

SentimentSum == sum([i \in DOMAIN Summarised |-> SentimentOf(Summarised[i])])

SummarisedDates == {Day(Summarised[i]) : i \in DOMAIN Summarised}

EarliestStamp ==
  CHOOSE t \in {Summarised[i].timestamp : i \in DOMAIN Summarised} :
    \A i \in DOMAIN Summarised : t <= Summarised[i].timestamp

\* C21 as stated: on a set of records that is not empty the summary gives the number
\* of the records as totalEntries, an emotion of the highest record count as
\* mostCommonEmotion, the mean of the sentiments (as it is or rounded to the 3
\* decimals the summary keeps) as averageSentiment, and the number of distinct
\* calendar dates that have a record as daysTracked.
C21_SummaryOfRecords ==
  (probe.op \in StatsOps /\ Summarised # <<>>) =>
    LET s == probe.result.value
    IN /\ s.total_entries = Len(Summarised)
       /\ s.most_common_emotion \in Modes
       /\ \/ IsQuotient(s.average_sentiment, SentimentSum, ONE * Len(Summarised))
          \/ IsRounded(s.average_sentiment, 3, SentimentSum, ONE * Len(Summarised))
       /\ s.days_tracked = Cardinality(SummarisedDates)

\* C21 as amended: totalEntries and mostCommonEmotion are as stated.  The average
\* sentiment is the mean rounded to 3 decimals from get_summary_stats of
\* analytics_1750350728748.py and the unrounded mean from analytics_summary and
\* dashboard of routes.py.  daysTracked is the number of distinct dates with a record
\* from get_summary_stats and analytics_summary; from dashboard, which summarises all
\* the messages of the user whatever their age, it is the number of whole days
\* elapsed since the earliest of them, plus one.
C21_SummaryPerFunction ==
  (probe.op \in StatsOps /\ Summarised # <<>>) =>
    LET s == probe.result.value
    IN /\ s.total_entries = Len(Summarised)
       /\ s.most_common_emotion \in Modes
       /\ IF probe.op = "get_summary_stats"
            THEN IsRounded(s.average_sentiment, 3, SentimentSum, ONE * Len(Summarised))
            ELSE IsQuotient(s.average_sentiment, SentimentSum, ONE * Len(Summarised))
       /\ s.days_tracked =
            IF probe.op = "dashboard"
              THEN (probe.now - EarliestStamp) \div TicksPerDay + 1
              ELSE Cardinality(SummarisedDates)

\* two joys and a love of the first day, summarised on the second: the mean
\* sentiment 2/3 is returned as 0.667, and one day is tracked
C21_Witness ==
  /\ probe.op = "get_summary_stats"
  /\ Len(Summarised) = 3
  /\ probe.result =
       PyDict([total_entries |-> 3, most_common_emotion |-> "joy",
               average_sentiment |-> Ratio(667, 1000), days_tracked |-> 1])

\* the sum of the floats a and b
Plus(a, b) == Ratio(a.num * b.den + b.num * a.den, a.den * b.den)

\* the sum of the values the result gives the emotions E
RECURSIVE ValueSum(_)
ValueSum(E) ==
  IF E = {} THEN Zero
  ELSE LET e == CHOOSE e \in E : TRUE
       IN Plus(probe.result.value[e], ValueSum(E \ {e}))

DistributionOps == {"get_emotion_distribution", "emotion_distribution"}

\* C22: emotionDistribution maps each emotion that occurs among the filtered records
\* to count / total * 100 and has no entry for an emotion without a record; every
\* value is in (0, 100] and, when there is a record, the values sum to 100.
C22_DistributionIsPercentage ==
  probe.op \in DistributionOps =>
    /\ probe.result.type = "dict"
    /\ DOMAIN probe.result.value = FilteredEmotions
    /\ \A e \in FilteredEmotions :
         /\ IsQuotient(probe.result.value[e], 100 * Cardinality(RecordsOf({e})),
                       Len(Filtered))
         /\ 0 < probe.result.value[e].num
         /\ probe.result.value[e].num <= 100 * probe.result.value[e].den
    /\ Filtered # <<>> => ValueSum(FilteredEmotions) = Ratio(100, 1)

\* joy, joy and sadness: two thirds and one third of 100
C22_Witness ==
  /\ probe.op = "get_emotion_distribution"
  /\ Len(Filtered) = 3
  /\ probe.result =
       PyDict([e \in {"joy", "sadness"} |->
                 IF e = "joy" THEN Ratio(200, 3) ELSE Ratio(100, 3)])

\* the sum of the counts the result gives the emotions E
RECURSIVE CountSum(_)
CountSum(E) ==
  IF E = {} THEN 0
  ELSE LET e == CHOOSE e \in E : TRUE
       IN probe.result.value[e] + CountSum(E \ {e})

FrequencyOps == {"get_emotion_frequency", "emotion_frequency"}

\* C23: emotionFrequency maps each emotion that occurs among the filtered records to
\* the number of its records, not normalised, and has no entry for another emotion,
\* so that the counts sum to the number of filtered records.
C23_FrequencyIsRawCount ==
  probe.op \in FrequencyOps =>
    /\ probe.result.type = "dict"
    /\ DOMAIN probe.result.value = FilteredEmotions
    /\ \A e \in FilteredEmotions :
         probe.result.value[e] = Cardinality(RecordsOf({e}))
    /\ CountSum(FilteredEmotions) = Len(Filtered)

\* joy, joy and sadness among the messages of the user: 2 and 1
C23_Witness ==
  /\ probe.op = "emotion_frequency"
  /\ Len(Filtered) = 3
  /\ probe.result = PyDict([e \in {"joy", "sadness"} |-> IF e = "joy" THEN 2 ELSE 1])

(***************************************************************************)
(* Properties of the sentiment trends.                                     *)
(***************************************************************************)
SentimentTrendOps == {"get_sentiment_trends", "sentiment_trends"}

\* the date and the value of an entry: 'date' and 'sentiment' from
\* get_sentiment_trends, 'x' and 'y' from sentiment_trends
TrendDate(entry) == IF probe.op = "get_sentiment_trends" THEN entry.date ELSE entry.x

TrendValue(entry) == IF probe.op = "get_sentiment_trends" THEN entry.sentiment ELSE entry.y

\* the sum of the sentiments of the filtered records I, in tenths
RECURSIVE SentimentSumOf(_)
SentimentSumOf(I) ==
  IF I = {} THEN 0
  ELSE LET i == CHOOSE i \in I : TRUE
       IN SentimentOf(Filtered[i]) + SentimentSumOf(I \ {i})

\* the result lists exactly one entry for each date that has a filtered record with a
\* sentiment, ascending by date.  Every stored record has a sentiment: the handlers
\* store the 0.0 of a failed analysis, never NULL.
OneEntryPerDateAscending ==
  LET entries == probe.result.value
  IN /\ probe.result.type = "list"
     /\ {TrendDate(entries[i]) : i \in DOMAIN entries} = FilteredDates
     /\ \A i, j \in DOMAIN entries :
          i < j => TrendDate(entries[i]) < TrendDate(entries[j])

\* C24 as stated: sentimentTrends returns one entry per distinct calendar date that
\* has a filtered record with a sentiment, sorted ascending by date, and the value of
\* an entry is the mean of the sentiments of its date rounded to 3 decimals.
C24_SentimentTrendsRounded ==
  probe.op \in SentimentTrendOps =>
    /\ OneEntryPerDateAscending
    /\ \A i \in DOMAIN probe.result.value :
         LET on_date == RecordsOn(TrendDate(probe.result.value[i]))
         IN IsRounded(TrendValue(probe.result.value[i]), 3, SentimentSumOf(on_date),
                      ONE * Cardinality(on_date))

\* C24 as amended: both functions return one entry per distinct date that has a
\* filtered record with a sentiment, sorted ascending by date; the value is the mean
\* of the sentiments of the date rounded to 3 decimals from get_sentiment_trends of
\* analytics_1750350728748.py, and the mean itself, not rounded, from
\* sentiment_trends of routes.py.
C24_SentimentTrendsPerModule ==
  probe.op \in SentimentTrendOps =>
    /\ OneEntryPerDateAscending
    /\ \A i \in DOMAIN probe.result.value :
         LET on_date == RecordsOn(TrendDate(probe.result.value[i]))
             value == TrendValue(probe.result.value[i])
         IN IF probe.op = "get_sentiment_trends"
              THEN IsRounded(value, 3, SentimentSumOf(on_date), ONE * Cardinality(on_date))
              ELSE IsQuotient(value, SentimentSumOf(on_date), ONE * Cardinality(on_date))

\* sentiments 1.0, 1.0 and 0.0 on the first day: their mean 2/3 is returned as 0.667
C24_Witness ==
  /\ probe.op = "get_sentiment_trends"
  /\ Len(Filtered) = 3
  /\ probe.result = PyList(<<[date |-> 0, sentiment |-> Ratio(667, 1000)]>>)

(***************************************************************************)
(* Properties of repeated analytics calls.                                 *)
(***************************************************************************)
\* the call in probe repeats the call in previous: the same operation, user and days
\* at the same time; no analytics step writes a table
Repeated ==
  /\ previous # NoProbe
  /\ probe # NoProbe
  /\ probe.op = previous.op
  /\ probe.user = previous.user
  /\ probe.days = previous.days
  /\ probe.now = previous.now

\* C25: an analytics operation called twice with the same user and days at the same
\* time on unchanged records returns the same output both times, the most common
\* emotion included when several emotions tie for the highest count.
C25_RepeatedCallsAgree == Repeated => probe.result = previous.result

\* a joy and a sadness, each the only record of its emotion: the summary names joy as
\* the most common emotion on the first call and sadness on the second, all else in
\* the two summaries being equal
C25_Witness ==
  /\ Repeated
  /\ probe.op = "get_summary_stats"
  /\ Len(Filtered) = 2
  /\ previous.result.value.most_common_emotion = "joy"
  /\ probe.result.value.most_common_emotion = "sadness"
  /\ probe.result = [previous.result EXCEPT !.value.most_common_emotion = "sadness"]

(***************************************************************************)
(* C26  Across any sequence of chat, journal and analytics operations a    *)
(* stored record is never modified or removed: every step leaves each row  *)
(* of emotion_history (and of the two tables the routes.py analytics read) *)
(* at its place and as it was, an analytics call or return leaves the      *)
(* three tables unchanged, and a handler can only append rows.             *)
(***************************************************************************)
KeptIn(before, after) ==
  /\ Len(before) <= Len(after)
  /\ \A i \in DOMAIN before : after[i] = before[i]

C26_RecordsAreNeverTouched ==
  [][/\ KeptIn(emotion_history, emotion_history')
     /\ KeptIn(conversations, conversations')
     /\ KeptIn(journal_entries, journal_entries')
     /\ (probe' # probe => UNCHANGED store)]_vars

\* C26 witness: a record of an earlier run, a record a handler of this run appended
\* behind it, and an analytics operation that has read both
C26_Witness ==
  /\ Len(emotion_history) = 2
  /\ emotion_history[1].timestamp = -1
  /\ emotion_history[2].timestamp >= 0
  /\ probe.op = "get_emotion_frequency"
  /\ probe.user = emotion_history[1].user_id
  /\ probe.user = emotion_history[2].user_id
  /\ probe.days = 2
  /\ CountSum(DOMAIN probe.result.value) = 2

(***************************************************************************)
(* C27  The model, the vectorizer, the label decoder and the label table   *)
(* (and is_loaded of ml_utils.py) are written only by the one load at      *)
(* construction: a step that changes any of them is the construction of a  *)
(* detector not yet built, and no detection call or return, whether its    *)
(* inference succeeded or raised, changes any of them.                     *)
(***************************************************************************)
LoadedFields == <<model, vectorizer, label_encoder, emotion_labels, is_loaded>>

TrainedUsed ==
  /\ Returned
  /\ "predict_proba" \in Called(last.calls)
  /\ Called(last.errors) \cap {"transform", "predict", "predict_proba"} = {}
  /\ impl = "ml_utils" => "inverse_transform" \notin Called(last.errors)

\* the predicted value is an index of the table
IndexInRange(labels, p) == p.t \in {"int", "int64"} /\ 0 <= p.n /\ p.n < Len(labels)

DecodedLabel ==
  LET p == last.answers.predict.v
  IN IF label_encoder.present /\ label_encoder.inverse_transform
          /\ CanDecode(label_encoder, p)
       THEN label_encoder.classes_[p.n + 1]
       ELSE IF IndexInRange(emotion_labels, p)
         THEN emotion_labels[p.n + 1]
         ELSE Str(p)

C28_TrainedLabelAndConfidence ==
  TrainedUsed =>
    /\ last.confidence = last.answers.predict_proba.v
    /\ last.emotion = DecodedLabel

\* C28, the failing case: no decoder is loaded, the classifier predicts the
\* numpy.int64 1, an index of the table, and the label is "1", not the entry
C28_Witness ==
  /\ TrainedUsed
  /\ impl = "emotion_detector"
  /\ ~label_encoder.present
  /\ last.answers.predict.v = NpInt64(1)
  /\ emotion_labels[2] = "sadness"
  /\ last.emotion = "1"
  /\ last.confidence = last.answers.predict_proba.v

(***************************************************************************)
(* C29  Every emotion-history record the chat handler stored has as its    *)
(* source id the id of the stored user-message row it was derived from,    *)
(* and every record the journal handler stored has the id of the stored    *)
(* journal entry.                                                          *)
(***************************************************************************)
\* the user-message rows the history record h can have been derived from
ChatSources(h) ==
  {c \in Called(conversations) :
     /\ c.is_user_message
     /\ c.user_id = h.user_id
     /\ c.emotion = Some(h.emotion)
     /\ c.timestamp = h.timestamp}

\* the journal entries the history record h can have been derived from
JournalSources(h) ==
  {j \in Called(journal_entries) :
     /\ j.user_id = h.user_id
     /\ j.emotion = Some(h.emotion)
     /\ j.created_at = h.timestamp}

C29_SourceIdIsTheStoredRow ==
  \A h \in Called(emotion_history) :
    /\ h.source_type = "chat" => \E c \in ChatSources(h) : h.source_id = Some(c.id)
    /\ h.source_type = "journal" => \E j \in JournalSources(h) : h.source_id = Some(j.id)

\* C29, the failing case: send_message has committed a user message, which has its
\* id, and the history record derived from it, whose source id is NULL
C29_Witness ==
  /\ impl = "emotion_detector"
  /\ request.route = "send_message"
  /\ response = "redirect chat"
  /\ Len(emotion_history) = 1
  /\ emotion_history[1].source_type = "chat"
  /\ emotion_history[1].source_id = Null
  /\ \E c \in ChatSources(emotion_history[1]) : c.id = 1

(***************************************************************************)
(* C30  In the chat handler the user message, its emotion data and the bot *)
(* reply are committed together: a send_message request either leaves the  *)
(* tables as they were before it (blank message, failed analysis, failed   *)
(* commit rolled back) or appends the user message with its reading, the   *)
(* bot reply and, in routes_1750350728745.py, the history record of that   *)
(* reading; and the handler answers with a response, never an exception.   *)
(***************************************************************************)
\* the step is a send_message request being handled
ChatHandled == response = "none" /\ response' # "none" /\ request'.route = "send_message"

\* the tables after the step hold, behind the rows they held, everything the
\* request stores
AllStored ==
  /\ Len(conversations') = Len(conversations) + 2
  /\ KeptIn(conversations, conversations')
  /\ LET u == conversations'[Len(conversations) + 1]
         b == conversations'[Len(conversations) + 2]
     IN /\ u.is_user_message
        /\ u.user_id = request'.user
        /\ u.message = Strip(request'.text)
        /\ u.emotion = Some(last'.emotion)
        /\ u.emotion_confidence = Some(last'.confidence)
        /\ u.sentiment_score = Some(last'.sentiment_score)
        /\ ~b.is_user_message
        /\ b.user_id = request'.user
        /\ b.message = BotReply
        /\ IF impl = "emotion_detector"
             THEN /\ Len(emotion_history') = Len(emotion_history) + 1
                  /\ KeptIn(emotion_history, emotion_history')
                  /\ LET h == emotion_history'[Len(emotion_history')]
                     IN /\ h.user_id = request'.user
                        /\ h.source_type = "chat"
                        /\ h.emotion = last'.emotion
                        /\ h.confidence = last'.confidence
                        /\ h.sentiment_score = last'.sentiment_score
                        /\ h.timestamp = u.timestamp
             ELSE UNCHANGED emotion_history
  /\ UNCHANGED journal_entries

====
